---- MODULE Spec2Model ----
(***************************************************************************)
(* Bond trading system: the service / listener / connector fabric and the  *)
(* domain services main() wires together.  Prices are held as integers in  *)
(* units of 1/256 (every price the feeds can carry is a multiple of 1/256, *)
(* which a double represents exactly), times are milliseconds.             *)
(***************************************************************************)
EXTENDS Integers, Sequences, FiniteSets, TLC

\* ------------------------------------------------------------------ bounds
MaxTrades == 2        \* records of the trades feed
MaxBooks == 4         \* records of the market-data feed
MixedTrades == 1      \* records of a trades feed that a market-data feed follows
MixedBooks == 2       \* records of a market-data feed that follows a trades feed
MaxPrices == 3        \* records of the prices feed
MaxInquiries == 3     \* records of the inquiries feed
MaxDollars == 201     \* largest integer part of a price fed to the codec
MaxClock == 30900     \* last wall-clock reading (ms after the GUI service is built)
MaxNotifies == 2      \* Notify calls made on one service
MaxRunRecords == 2    \* records of each feed when the call chain is followed step by step
LookupRecords == 1    \* records of a feed read before lookups are made on the services
MaxAlgoBooks == 2     \* order books handed to AlgoExecute outside a feed
MaxGuiCalls == 4      \* ProvideData calls made under a clock that can be set back
MaxInRecords == 4     \* records in the file one data_reader serves
MaxOutRecords == 3    \* records one outbound connector publishes before main returns

\* ------------------------------------------------------- program constants
Tick == 256           \* price units per dollar (1/256 is the smallest tick)
SpreadGate == 2       \* 1.0 / 128 in price units
Throttle == 300       \* GUIService throttle passed by main (ms)
MaxSamples == 100     \* GUIService emission cap
StackDepth == 5       \* levels per side built by BondMarketDataConnector
LevelQty == 1000000   \* quantity step per order-book level
Par == 25600          \* the quote price 100 in price units

\* The catalog (BondInfo::GetCUSIP); two of the seven CUSIPs are modelled.
Cusips == {"91282CAX9", "91282CAZ4"}
BookNames == {"TRSY1", "TRSY2", "TRSY3"}

\* ============================================================ price codec
Digits == <<"0", "1", "2", "3", "4", "5", "6", "7", "8", "9">>

\* ASCII code of the characters a price string can hold.
CharCode(c) ==
    CASE c = "-" -> 45
      [] c = "+" -> 43
      [] OTHER -> 47 + (CHOOSE i \in 1..10 : Digits[i] = c)

\* std::to_string of a non-negative int.
RECURSIVE to_string(_)
to_string(n) ==
    IF n < 10 THEN <<Digits[n + 1]>>
    ELSE to_string(n \div 10) \o <<Digits[(n % 10) + 1]>>

\* BondInfo::FormatPrice: price (in 1/256) to the string I-xyz.
FormatPrice(price) ==
    LET I == price \div Tick                        \* floor(price)
        xy == (32 * (price - I * Tick)) \div Tick    \* floor(32*(price-I))
        z == (price - I * Tick) - xy * 8             \* floor(256*(price-I-xy/32.0))
        xy_raw == to_string(xy)
        xy_str == IF Len(xy_raw) = 1 THEN <<"0">> \o xy_raw ELSE xy_raw
    IN  to_string(I) \o <<"-">> \o xy_str \o to_string(z)

\* s[i] of a std::string as a byte value, 0-based; an index outside the
\* string reads a byte the string does not hold: oob stands for that byte.
CharAt(s, i, oob) == IF i >= 0 /\ i < Len(s) THEN CharCode(s[i + 1]) ELSE oob

\* BondInfo::CalculatePrice: the string I-xyz to a price (in 1/256).
CalculatePrice(s, oob) ==
    LET size == Len(s)
        d(i) == CharAt(s, i, oob) - 48
    IN  d(size - 1)
        + 8 * d(size - 2)
        + 80 * d(size - 3)
        + Tick * d(size - 5)
        + 10 * Tick * d(size - 6)
        + (IF size = 7 THEN 100 * Tick ELSE 0)


\* ================================================================ state
VARIABLES
    feed,           \* the inbound feed main() is draining, in startup order
    nRead,          \* records read so far from the current feed
    trades,         \* BondTradeBookingService::trades (trade id -> Trade)
    bookingCount,   \* BondTradeBookingListener::count
    positions,      \* BondPositionService::positions (cusip -> book -> long)
    orderbooks,     \* BondMarketDataService::orderbooks (cusip -> OrderBook)
    algoExecCount,  \* BondAlgoExecutionService::count
    hdlCount,       \* HistoricalDataListener::count, one per listener
    keyLog,         \* persistence keys each HistoricalDataListener generated
    published,      \* records each outbound connector has published
    netFlow,        \* signed quantity of the trades the position service processed
    lastBook,       \* the last book AlgoExecute received and whether it emitted
    execLog,        \* what BondExecutionService notified last, and how many
    synthLog,       \* what BookTrade delivered last, and how many
    prices,         \* BondPricingService::prices (cusip -> Price)
    now,            \* the last reading of the millisecond wall clock
    gui,            \* GUIService::last_time and GUIService::count
    guiLog,         \* the last ProvideData call and the last two GUI records
    algoStreamCount,\* BondAlgoStreamingService::count
    streamLog,      \* the PriceStream emitted last, and how many
    inqLog,         \* the last inquiry handed to OnMessage and what came of it
    codec,          \* the price codec's round trip: price, string, price
    risks,          \* BondRiskService::risks (cusip -> PV01)
    riskLog,        \* the PV01 the risk service notified last, its line, and how many
    recv,           \* the last message an inbound connector handed to OnMessage
    svc,            \* a Service<K,V>: its listeners and the callbacks they received
    run,            \* main's position in the synchronous call chain, and its outputs
    query,          \* the last lookup made on a service and how it ended
    outw,           \* an outbound connector, its data_writer and the socket between them
    inw,            \* an inbound connector, its data_reader and the socket between them
    algo            \* AlgoExecute on free order books, and two runs of what follows it

bookingVars == <<trades, bookingCount, positions, netFlow, synthLog, risks, riskLog>>
execVars == <<orderbooks, algoExecCount, lastBook, execLog>>
hdlVars == <<hdlCount, keyLog, published>>
pricingVars == <<prices, algoStreamCount, streamLog>>
guiVars == <<now, gui, guiLog>>
harness == <<codec, svc, run, query, outw, inw, algo>>
vars == <<feed, nRead, bookingVars, execVars, hdlVars, pricingVars, guiVars,
          inqLog, recv, harness>>

HdlNames == {"position", "risk", "execution", "streaming", "allinquiries"}
ConnectorNames == HdlNames \cup {"gui"}
None == [none |-> TRUE]

\* ===================================================== positions and trades
Sides == {"BUY", "SELL"}

\* A variant of AddPosition that adds the quantity whatever the side.
AddPositionUnsigned(pos, book, position, side) ==
    IF book \in DOMAIN pos
    THEN [pos EXCEPT ![book] = @ + position]
    ELSE pos @@ (book :> position)

\* Position::AddPosition on the book -> quantity map of one product.
AddPosition(pos, book, position, side) ==
    LET signed == IF side = "BUY" THEN position ELSE -position
    IN  IF book \in DOMAIN pos
        THEN [pos EXCEPT ![book] = @ + signed]
        ELSE pos @@ (book :> signed)

\* Position::GetAggregatePosition: the sum over the books present.
RECURSIVE SumOver(_, _)
SumOver(pos, books) ==
    IF books = {} THEN 0
    ELSE LET b == CHOOSE x \in books : TRUE
         IN  pos[b] + SumOver(pos, books \ {b})

GetAggregatePosition(pos) == SumOver(pos, DOMAIN pos)

\* A variant of GetPosition that inserts a missing book with quantity 1.
GetPositionInsertsOne(pos) ==
    [b \in (DOMAIN pos) \cup BookNames |-> IF b \in DOMAIN pos THEN pos[b] ELSE 1]

\* Position::GetPosition is map::operator[]: a book not yet present is
\* inserted with quantity 0.  BondPositionConnector::Publish calls it for
\* TRSY1, TRSY2 and TRSY3 on the cached position it is handed by reference.
GetPositionInserts(pos) ==
    [b \in (DOMAIN pos) \cup BookNames |-> IF b \in DOMAIN pos THEN pos[b] ELSE 0]

\* A variant of the key that increments the counter before using it.
HdlKeyPreIncrement(count) == to_string(count + 1)

\* HistoricalDataListener::ProcessAdd: key = to_string(count++), then
\* PersistData -> connector->Publish.
HdlKey(count) == to_string(count)
HdlNext(count) == count + 1

HdlReceive(h, name) ==
    [count |-> [h.count EXCEPT ![name] = HdlNext(@)],
     keys |-> [h.keys EXCEPT ![name] = Append(@, HdlKey(h.count[name]))],
     pub |-> [h.pub EXCEPT ![name] = @ + 1]]

\* BondInfo::GetPV01 in units of 0.01 (0.02 for the 2Y, 0.05 for the 5Y,
\* 0 for a CUSIP outside the catalog).
GetPV01(cusip) ==
    CASE cusip = "91282CAX9" -> 2
      [] cusip = "91282CAZ4" -> 5
      [] OTHER -> 0

\* BondRiskService::AddPosition: the PV01 object it builds and notifies, and
\* the risks map it leaves (it stores nothing).
RiskAddPosition(rk, cusip, pos) ==
    [risks |-> rk,
     pv01 |-> [product |-> cusip, pv01 |-> GetPV01(cusip),
               quantity |-> GetAggregatePosition(pos)]]

\* A variant of the risk line that carries the per-unit PV01 alone.
RiskPublishPerUnit(pv01) == [product |-> pv01.product, total_pv01 |-> pv01.pv01]

\* BondRiskConnector::Publish: the product and GetPV01() * GetQuantity()
\* of the line it sends (in units of 0.01, like the per-unit PV01).
RiskPublish(pv01) == [product |-> pv01.product, total_pv01 |-> pv01.pv01 * pv01.quantity]

\* BondPositionService::AddTrade: update the cached position of the product
\* (the position connector's GetPosition calls included) or exit(0) when the
\* product is unknown; its Notify reaches BondRiskService::AddPosition.
AddTrade(trade) ==
    LET cusip == trade.product
        pos == AddPosition(positions[cusip], trade.book, trade.quantity, trade.side)
    IN  /\ cusip \in DOMAIN positions
        /\ positions' = [positions EXCEPT ![cusip] = GetPositionInserts(pos)]
        /\ risks' = RiskAddPosition(risks, cusip, pos).risks
        /\ riskLog' = [n |-> riskLog.n + 1,
                       pv01 |-> RiskAddPosition(risks, cusip, pos).pv01,
                       line |-> RiskPublish(RiskAddPosition(risks, cusip, pos).pv01)]
        /\ netFlow' = [netFlow EXCEPT ![cusip] =
                          @ + (IF trade.side = "BUY" THEN trade.quantity ELSE -trade.quantity)]

\* What Notify of the position service reaches, in the registration order
\* of main: BondRiskListener -> BondRiskService::AddPosition -> the risk
\* historical listener, then the position historical listener.
AddTradeHdl(h) == HdlReceive(HdlReceive(h, "risk"), "position")

SetHdl(h) ==
    /\ hdlCount' = h.count
    /\ keyLog' = h.keys
    /\ published' = h.pub

HdlNow == [count |-> hdlCount, keys |-> keyLog, pub |-> published]

\* A variant of the cache update that keeps an entry already present.
CachePutIfAbsent(cache, key, value) ==
    [x \in (DOMAIN cache) \cup {key} |-> IF x \in DOMAIN cache THEN cache[x] ELSE value]

\* OnMessage of the pricing, market-data and trade-booking services on their
\* std::map: erase(key), then insert(make_pair(key, value)).
CachePut(cache, key, value) ==
    [x \in (DOMAIN cache) \cup {key} |-> IF x = key THEN value ELSE cache[x]]

\* GetData of the pricing and trade-booking services:
\* return map.find(key)->second.  For a key the map does not hold, find
\* returns end() and the dereference is undefined: wild stands for what the
\* build then does.
GetDataUnchecked(cache, key, wild) ==
    IF key \in DOMAIN cache THEN [kind |-> "value", value |-> cache[key]] ELSE wild

\* The std::map each caching service keeps.
CacheOf(service) ==
    CASE service = "tradebooking" -> trades
      [] service = "marketdata" -> orderbooks
      [] OTHER -> prices

\* A variant of BookTrade that stores the trade like OnMessage.
BookTradeStores(cache, trade) == CachePut(cache, trade.tradeId, trade)

\* BondTradeBookingService::BookTrade: the trades map after the call; the
\* body is Notify alone.
BookTrade(cache, trade) == cache

\* Inputs of the trades feed.
TradeIds == {<<"T", "1">>, <<"1">>}
TradePrices == {Par}
TradeQtys == {1000000, 400000}

\* BondTradeBookingConnector::Subscribe loop body: one trade record, then
\* BondTradeBookingService::OnMessage and its whole propagation.
TradeRecord(limit) ==
    /\ feed = "trades"
    /\ nRead < limit
    /\ \E c \in Cusips, id \in TradeIds, p \in TradePrices, b \in BookNames,
          q \in TradeQtys, s \in Sides :
          LET trade == [product |-> c, tradeId |-> id, price |-> p, book |-> b,
                        quantity |-> q, side |-> s]
          IN  /\ trades' = CachePut(trades, id, trade)
              /\ recv' = [service |-> "tradebooking", key |-> id, value |-> trade]
              /\ AddTrade(trade)
              /\ SetHdl(AddTradeHdl(HdlNow))
    /\ nRead' = nRead + 1
    /\ UNCHANGED <<feed, bookingCount, synthLog>>
    /\ UNCHANGED <<execVars, pricingVars, guiVars, inqLog, harness>>

\* A record of a trades feed of at most MaxTrades records.
TradeMsg == TradeRecord(MaxTrades)

\* A record of a trades feed that a non-empty market-data feed follows.
TradeBeforeMarketData == TradeRecord(MixedTrades)

\* The trades feed delivers EOF: main goes on to the market-data feed.
TradesEOF ==
    /\ feed = "trades"
    /\ feed' = "marketdata"
    /\ nRead' = 0
    /\ UNCHANGED <<bookingVars, execVars, hdlVars, pricingVars, guiVars, inqLog, recv, harness>>


\* ============================================== market data and executions
\* BondMarketDataConnector::Subscribe: five levels per side, level i+1 with
\* quantity 1000000*(i+1); the feed's prices step one tick per level.
MakeStack(best, step, side) ==
    [i \in 1..StackDepth |->
        [price |-> best + step * (i - 1), quantity |-> LevelQty * i, side |-> side]]

MakeBook(c, bid, offer) ==
    [product |-> c,
     bidStack |-> MakeStack(bid, -1, "BID"),
     offerStack |-> MakeStack(offer, 1, "OFFER")]

\* OrderBook::GetSpread
GetSpread(ob) == ob.offerStack[1].price - ob.bidStack[1].price

\* A variant of the gate that lets spreads up to 1/64 through.
GateDropsLoose(spread) == spread > 2 * SpreadGate

\* The gate of AlgoExecute: if (spread > 1.0 / 128) return;
GateDrops(spread) == spread > SpreadGate

\* A variant of the side choice that bids on even counts.
AlgoSideEvenBid(count) == IF count % 2 = 0 THEN "BID" ELSE "OFFER"

\* The side AlgoExecute picks from its counter: (count % 2) ? BID : OFFER
AlgoSide(count) == IF count % 2 /= 0 THEN "BID" ELSE "OFFER"

\* A variant of AlgoExecute that takes the quantity on the order's own side.
AlgoExecuteSameSide(count0, ob) ==
    LET count == count0 + 1
        side == AlgoSide(count)
        orderId == to_string(count)
        price == IF side = "BID" THEN ob.bidStack[1].price ELSE ob.offerStack[1].price
        quantity == IF side = "BID" THEN ob.bidStack[1].quantity
                    ELSE ob.offerStack[1].quantity
    IN  [count |-> count,
         emitted |-> ~GateDrops(GetSpread(ob)),
         order |-> [product |-> ob.product, side |-> side, orderId |-> orderId,
                    orderType |-> "MARKET", price |-> price,
                    visibleQuantity |-> quantity, hiddenQuantity |-> quantity,
                    parentOrderId |-> orderId, isChildOrder |-> FALSE]]

\* BondAlgoExecutionService::AlgoExecute: the new counter, whether Notify is
\* called, and the order it is called with.
AlgoExecute(count0, ob) ==
    LET count == count0 + 1
        side == AlgoSide(count)
        orderId == to_string(count)
        price == IF side = "BID" THEN ob.bidStack[1].price ELSE ob.offerStack[1].price
        quantity == IF side = "BID" THEN ob.offerStack[1].quantity
                    ELSE ob.bidStack[1].quantity
    IN  [count |-> count,
         emitted |-> ~GateDrops(GetSpread(ob)),
         order |-> [product |-> ob.product, side |-> side, orderId |-> orderId,
                    orderType |-> "MARKET", price |-> price,
                    visibleQuantity |-> quantity, hiddenQuantity |-> quantity,
                    parentOrderId |-> orderId, isChildOrder |-> FALSE]]

\* A variant of the book choice that starts the cycle at TRSY1.
BookOfFromOne(count) ==
    LET n == 1 + ((count - 1) % 3)
    IN  CASE n = 1 -> "TRSY1" [] n = 2 -> "TRSY2" [] OTHER -> "TRSY3"

\* The book BondTradeBookingListener::ProcessAdd picks: "TRSY" + to_string(1 + count % 3)
BookOf(count) ==
    LET n == 1 + (count % 3)
    IN  CASE n = 1 -> "TRSY1" [] n = 2 -> "TRSY2" [] OTHER -> "TRSY3"

\* BondTradeBookingListener::ProcessAdd: the trade made from an execution,
\* count being the listener's counter after its increment.
SynthTrade(order, count) ==
    [product |-> order.product, tradeId |-> order.orderId, price |-> order.price,
     book |-> BookOf(count), quantity |-> order.visibleQuantity,
     side |-> IF order.side = "BID" THEN "BUY" ELSE "SELL"]

\* enum Market
Markets == {"BROKERTEC", "ESPEED", "CME"}

\* A variant of ExecuteOrder that marks the orders of one market as children.
ExecuteOrderRouted(order, market) ==
    IF market = "CME" THEN order ELSE [order EXCEPT !.isChildOrder = TRUE]

\* BondExecutionService::ExecuteOrder: the order it hands to Notify, a copy
\* of its first argument.
ExecuteOrder(order, market) == order

\* BondExecutionConnector::Publish: the fields of the line after the
\* timestamp; the order type is the literal "MARKET".
ExecutionPublish(order) ==
    [product |-> order.product, orderId |-> order.orderId, orderType |-> "MARKET",
     side |-> IF order.side = "BID" THEN "BUY" ELSE "SELL",
     price |-> FormatPrice(order.price),
     visibleQuantity |-> order.visibleQuantity,
     hiddenQuantity |-> order.hiddenQuantity]

\* What one run holds downstream of BondExecutionService.
DownIdle ==
    [n |-> 0, order |-> None, bookingCount |-> 0, trade |-> None,
     positions |-> [c \in Cusips |-> <<>>], line |-> None]

\* Notify of BondExecutionService with one order, in the registration order
\* of main: the trade booking listener (BookTrade -> AddTrade on the
\* position of the product), then the historical listener and its connector.
Downstream(d, order) ==
    LET k == d.bookingCount + 1
        trade == SynthTrade(order, k)
        pos == AddPosition(d.positions[trade.product], trade.book,
                           trade.quantity, trade.side)
    IN  [n |-> d.n + 1, order |-> order, bookingCount |-> k, trade |-> trade,
         positions |-> [d.positions EXCEPT ![trade.product] = GetPositionInserts(pos)],
         line |-> ExecutionPublish(order)]

\* Order books with any level-1 quantities on the two sides.
AlgoQtys == {LevelQty, 3 * LevelQty}

\* Inputs of the market-data feed: best bid and best offer.
BestBids == {99 * Tick + 249, 99 * Tick + 248, 99 * Tick + 247}
BestOffers == {99 * Tick + 250}

\* BondMarketDataConnector::Subscribe loop body: one order book, then
\* BondMarketDataService::OnMessage and its whole propagation:
\* AlgoExecute -> BondExecutionService::ExecuteOrder -> (trade booking
\* listener -> BookTrade -> position -> risk) and the execution listener.
MarketDataBook(limit, bids, offers) ==
    /\ feed = "marketdata"
    /\ nRead < limit
    /\ \E c \in Cusips, bid \in bids, offer \in offers :
          LET ob == MakeBook(c, bid, offer)
              r == AlgoExecute(algoExecCount, ob)
              k == bookingCount + 1
              trade == SynthTrade(ExecuteOrder(r.order, "CME"), k)
          IN  /\ orderbooks' = CachePut(orderbooks, c, ob)
              /\ recv' = [service |-> "marketdata", key |-> c, value |-> ob]
              /\ algoExecCount' = r.count
              /\ lastBook' = [spread |-> GetSpread(ob), emitted |-> r.emitted]
              /\ IF r.emitted
                 THEN /\ execLog' = [n |-> execLog.n + 1, order |-> r.order]
                      /\ trades' = BookTrade(trades, trade)
                      /\ bookingCount' = k
                      /\ synthLog' = [n |-> synthLog.n + 1, trade |-> trade]
                      /\ AddTrade(trade)
                      /\ SetHdl(HdlReceive(AddTradeHdl(HdlNow), "execution"))
                 ELSE UNCHANGED <<execLog, trades, bookingCount, synthLog,
                                  positions, netFlow, risks, riskLog, hdlVars>>
    /\ nRead' = nRead + 1
    /\ UNCHANGED <<feed, pricingVars, guiVars, inqLog, harness>>

AlgoBook(c, bid, offer, bidQty, offerQty) ==
    LET ob == MakeBook(c, bid, offer)
    IN  [ob EXCEPT !.bidStack[1].quantity = bidQty,
                   !.offerStack[1].quantity = offerQty]

\* Nothing executed yet: the counter of a new BondAlgoExecutionService and
\* two runs with nothing downstream.
AlgoIdle ==
    [count |-> 0, ob |-> None, emitted |-> FALSE, order |-> None,
     marketA |-> "CME", marketB |-> "CME", runA |-> DownIdle, runB |-> DownIdle]

\* AlgoExecute on one order book; its order, if any, goes through
\* ExecuteOrder with market marketA in one run and marketB in the other.
AlgoStep ==
    /\ algo.count < MaxAlgoBooks
    /\ \E c \in Cusips, bid \in BestBids, offer \in BestOffers,
          bidQty \in AlgoQtys, offerQty \in AlgoQtys, mA \in Markets, mB \in Markets :
          LET ob == AlgoBook(c, bid, offer, bidQty, offerQty)
              r == AlgoExecute(algo.count, ob)
          IN  algo' = [count |-> r.count, ob |-> ob, emitted |-> r.emitted,
                       order |-> r.order, marketA |-> mA, marketB |-> mB,
                       runA |-> IF r.emitted
                                 THEN Downstream(algo.runA, ExecuteOrder(r.order, mA))
                                 ELSE algo.runA,
                       runB |-> IF r.emitted
                                 THEN Downstream(algo.runB, ExecuteOrder(r.order, mB))
                                 ELSE algo.runB]
    /\ UNCHANGED <<feed, nRead, bookingVars, execVars, hdlVars, pricingVars,
                   guiVars, inqLog, recv, codec, svc, run, query, outw, inw>>

\* A record whose best bid is not above its best offer.
MarketDataRecord(limit) == MarketDataBook(limit, BestBids, BestOffers)

\* Best bids of records the connector parses like any other: the prices of
\* a record are taken as they come, so the best bid can be above the best
\* offer of BestOffers.
AnyBestBids == BestBids \cup {99 * Tick + 251}

\* A record of a market-data feed with any prices.
MarketDataAny == MarketDataBook(MaxBooks, AnyBestBids, BestOffers)

\* A record of a market-data feed of at most MaxBooks records.
MarketDataMsg == MarketDataRecord(MaxBooks)

\* A record of a market-data feed that follows a non-empty trades feed.
MarketDataAfterTrades == MarketDataRecord(MixedBooks)

\* The market-data feed delivers EOF: main goes on to the prices feed.
MarketDataEOF ==
    /\ feed = "marketdata"
    /\ feed' = "prices"
    /\ nRead' = 0
    /\ UNCHANGED <<bookingVars, execVars, hdlVars, pricingVars, guiVars, inqLog, recv, harness>>


\* ======================================================= GUI and streaming
\* current_time - last_time >= throttle on uint64_t: the difference is taken
\* modulo 2^64, so a reading below last_time gives a difference of at least
\* 2^64 - last_time, which is above any throttle.
ElapsedAtLeast(current_time, last_time, throttle) ==
    IF current_time >= last_time THEN current_time - last_time >= throttle ELSE TRUE

\* A variant of the cap that lets one more price through.
UnderCapInclusive(count) == count <= MaxSamples

\* The cap of ProvideData: count < 100
UnderCap(count) == count < MaxSamples

\* A variant of ProvideData that records the time of a dropped price too.
ProvideDataTouches(g, t1, t2) ==
    LET emit == ElapsedAtLeast(t1, g.last_time, Throttle) /\ UnderCap(g.count)
    IN  [emitted |-> emit,
         due |-> ElapsedAtLeast(t1, g.last_time, Throttle),
         last_time |-> t1,
         count |-> IF emit THEN g.count + 1 ELSE g.count,
         ts |-> t2,
         now |-> IF emit THEN t2 ELSE t1]

\* GUIService::ProvideData with GUIConnector::Publish: t1 is the clock read
\* by ProvideData, t2 the clock read by Publish for the record's timestamp.
ProvideData(g, t1, t2) ==
    LET emit == ElapsedAtLeast(t1, g.last_time, Throttle) /\ UnderCap(g.count)
    IN  [emitted |-> emit,
         due |-> ElapsedAtLeast(t1, g.last_time, Throttle),
         last_time |-> IF emit THEN t1 ELSE g.last_time,
         count |-> IF emit THEN g.count + 1 ELSE g.count,
         ts |-> t2,
         now |-> IF emit THEN t2 ELSE t1]

\* Steps the wall clock takes between two readings.
ClockSteps == {0, 150, 300}

\* The effect of one ProvideData call on the GUI state.
GuiStep(t1, t2) ==
    LET r == ProvideData(gui, t1, t2)
    IN  /\ gui' = [last_time |-> r.last_time, count |-> r.count]
        /\ now' = r.now
        /\ guiLog' = [emitted |-> r.emitted, due |-> r.due,
                      prev |-> IF r.emitted THEN guiLog.last ELSE guiLog.prev,
                      last |-> IF r.emitted THEN r.ts ELSE guiLog.last,
                      at |-> t1]

\* The visible size BondAlgoStreamingService::PublishPrice picks, and the
\* counter it leaves.
AlgoStreamSize(count) == IF count = 0 THEN 2000000 ELSE 1000000

\* A variant of the counter update that never goes back to 0.
AlgoStreamNextStuck(count) == 1

AlgoStreamNext(count) == IF count = 0 THEN 1 ELSE 0

\* BondAlgoStreamingService::PublishPrice: the PriceStream it notifies.
\* The feed's spread is d/128, an even number of price units, so
\* spread * 0.5 is exact.
PublishPrice(price, count) ==
    LET bid_price == price.mid - price.bidOfferSpread \div 2
        offer_price == price.mid + price.bidOfferSpread \div 2
        visible_size == AlgoStreamSize(count)
        hidden_size == 2 * visible_size
    IN  [product |-> price.product,
         bidOrder |-> [price |-> bid_price, visibleQuantity |-> visible_size,
                       hiddenQuantity |-> hidden_size, side |-> "BID"],
         offerOrder |-> [price |-> offer_price, visibleQuantity |-> visible_size,
                         hiddenQuantity |-> hidden_size, side |-> "OFFER"]]

\* Inputs of the prices feed: mid in 1/256, spread digit d (spread d/128).
Mids == {100 * Tick, 99 * Tick + 249}
SpreadDigits == {2, 3}

\* BondPricingConnector::Subscribe loop body: one price, then
\* BondPricingService::OnMessage and its whole propagation: the GUI listener
\* first, then algo streaming -> streaming -> the streaming listener.
PriceRecord(limit) ==
    /\ feed = "prices"
    /\ nRead < limit
    /\ \E c \in Cusips, mid \in Mids, d \in SpreadDigits :
          LET price == [product |-> c, mid |-> mid, bidOfferSpread |-> 2 * d]
              stream == PublishPrice(price, algoStreamCount)
          IN  /\ prices' = CachePut(prices, c, price)
              /\ recv' = [service |-> "pricing", key |-> c, value |-> price]
              /\ streamLog' = [n |-> streamLog.n + 1, stream |-> stream]
    /\ \E d1 \in ClockSteps, d2 \in ClockSteps :
          /\ GuiStep(now + d1, now + d1 + d2)
          /\ SetHdl(HdlReceive(
                 [HdlNow EXCEPT !.pub["gui"] =
                     IF ProvideData(gui, now + d1, now + d1 + d2).emitted
                     THEN @ + 1 ELSE @],
                 "streaming"))
    /\ algoStreamCount' = AlgoStreamNext(algoStreamCount)
    /\ nRead' = nRead + 1
    /\ UNCHANGED <<feed, bookingVars, execVars, inqLog, harness>>

\* A record of a prices feed of at most MaxPrices records.
PriceMsg == PriceRecord(MaxPrices)

\* GUIService::ProvideData called on its own, with the clock readings the
\* call and the connector take.
GuiProvideData ==
    /\ feed = "prices"
    /\ \E d1 \in ClockSteps, d2 \in ClockSteps :
          /\ now + d1 + d2 <= MaxClock
          /\ GuiStep(now + d1, now + d1 + d2)
          /\ published' = [published EXCEPT !["gui"] =
                              IF ProvideData(gui, now + d1, now + d1 + d2).emitted
                              THEN @ + 1 ELSE @]
    /\ UNCHANGED <<feed, nRead, bookingVars, execVars, hdlCount, keyLog,
                   pricingVars, inqLog, recv, harness>>

\* Steps of a wall clock that can also be set back between two readings
\* (system_clock is not steady).
AnyClockSteps == ClockSteps \cup {-150}

\* GUIService::ProvideData called for one price after another under such a
\* clock; readings stay at or after the construction of the service.
GuiProvideDataAnyClock ==
    /\ feed = "prices"
    /\ nRead < MaxGuiCalls
    /\ \E d1 \in AnyClockSteps, d2 \in ClockSteps :
          /\ now + d1 >= 0
          /\ GuiStep(now + d1, now + d1 + d2)
          /\ published' = [published EXCEPT !["gui"] =
                              IF ProvideData(gui, now + d1, now + d1 + d2).emitted
                              THEN @ + 1 ELSE @]
    /\ nRead' = nRead + 1
    /\ UNCHANGED <<feed, bookingVars, execVars, hdlCount, keyLog,
                   pricingVars, inqLog, recv, harness>>

\* The prices feed delivers EOF: main goes on to the inquiries feed.
PricesEOF ==
    /\ feed = "prices"
    /\ feed' = "inquiries"
    /\ nRead' = 0
    /\ UNCHANGED <<bookingVars, execVars, hdlVars, pricingVars, guiVars, inqLog, recv, harness>>


\* ================================================================ inquiries
InquiryStates == {"RECEIVED", "QUOTED", "DONE", "REJECTED", "CUSTOMER_REJECTED"}

\* A variant of the quote connector that quotes a DONE inquiry at par once
\* more, at price 0.
QuotePublishRequotes(inq) ==
    IF inq.state = "RECEIVED" THEN [inq EXCEPT !.state = "QUOTED"]
    ELSE IF inq.state = "DONE" /\ inq.price = Par
    THEN [inq EXCEPT !.state = "QUOTED", !.price = 0]
    ELSE inq

\* A variant of the quote connector that leaves every inquiry as it is.
QuotePublishKeeps(inq) == inq

\* QuoteConnector::Publish: RECEIVED becomes QUOTED, anything else is left.
QuotePublish(inq) ==
    IF inq.state = "RECEIVED" THEN [inq EXCEPT !.state = "QUOTED"] ELSE inq

\* A variant of the else branch that leaves the state as it came.
MarkRejectedKeeps(inq) == inq

\* The else branch of BondInquiryService::OnMessage: SetState(REJECTED);
\* RejectInquiry, called next, has an empty body.
MarkRejected(inq) == [inq EXCEPT !.state = "REJECTED"]

\* A variant of SetPrice that leaves the price as it came.
SetPriceIgnored(inq, price) == inq

\* Inquiry::SetPrice, called with 100 in the RECEIVED branch of OnMessage.
SetPrice(inq, price) == [inq EXCEPT !.price = price]

\* BondAllInquiriesConnector::Publish: the fields of the line after the
\* timestamp; the state is "DONE" for DONE and "REJECTED" for all others.
AllInquiriesPublish(inq) ==
    [product |-> inq.product, price |-> FormatPrice(inq.price),
     state |-> IF inq.state = "DONE" THEN "DONE" ELSE "REJECTED"]

\* BondInquiryService::OnMessage and BondInquiryService::SendQuote, which
\* call each other.  The result is the inquiry as the caller's reference
\* sees it afterwards, the inquiries handed to Notify in order, the number
\* of QuoteConnector::Publish calls and the deepest OnMessage nesting.
RECURSIVE OnMessageInquiry(_, _)
RECURSIVE SendQuote(_, _)
OnMessageInquiry(inq, depth) ==
    IF inq.state = "RECEIVED"
    THEN SendQuote(SetPrice(inq, Par), depth)
    ELSE IF inq.state = "QUOTED"
    THEN LET r == SendQuote([inq EXCEPT !.state = "DONE"], depth)
         IN  [r EXCEPT !.notified = Append(@, r.inq)]
    ELSE LET rejected == MarkRejected(inq)
         IN  [inq |-> rejected, notified |-> <<rejected>>, quotes |-> 0, depth |-> depth]

SendQuote(inq, depth) ==
    LET quoted == QuotePublish(inq)
    IN  IF quoted.state = "QUOTED"
        THEN LET r == OnMessageInquiry(quoted, depth + 1)
             IN  [r EXCEPT !.quotes = @ + 1]
        ELSE [inq |-> quoted, notified |-> <<>>, quotes |-> 1, depth |-> depth]

\* The historical listener of the inquiry service receives every inquiry
\* handed to Notify.
RECURSIVE HdlReceiveAll(_, _, _)
HdlReceiveAll(h, name, n) ==
    IF n = 0 THEN h ELSE HdlReceiveAll(HdlReceive(h, name), name, n - 1)

InquiryIds == {<<"Q", "1">>, <<"Q", "2">>}

\* One call of BondInquiryService::OnMessage and its whole propagation.
InquiryCall(inq) ==
    LET r == OnMessageInquiry(inq, 1)
    IN  /\ inqLog' = [input |-> inq, result |-> r,
                      records |-> published["allinquiries"]]
        /\ SetHdl(HdlReceiveAll(HdlNow, "allinquiries", Len(r.notified)))

\* BondInquiryConnector::Subscribe loop body: one inquiry record, built in
\* state RECEIVED with quantity 0 and price 0.
InquiryMsg ==
    /\ feed = "inquiries"
    /\ nRead < MaxInquiries
    /\ \E id \in InquiryIds, c \in Cusips, s \in Sides :
          InquiryCall([inquiryId |-> id, product |-> c, side |-> s,
                       quantity |-> 0, price |-> 0, state |-> "RECEIVED"])
    /\ nRead' = nRead + 1
    /\ UNCHANGED <<feed, bookingVars, execVars, pricingVars, guiVars, recv, harness>>

\* BondInquiryService::OnMessage called with an inquiry in any state.
InquiryOnMessage ==
    /\ feed = "inquiries"
    /\ nRead < MaxInquiries
    /\ \E id \in InquiryIds, c \in Cusips, s \in Sides, st \in InquiryStates :
          InquiryCall([inquiryId |-> id, product |-> c, side |-> s,
                       quantity |-> 0, price |-> 0, state |-> st])
    /\ nRead' = nRead + 1
    /\ UNCHANGED <<feed, bookingVars, execVars, pricingVars, guiVars, recv, harness>>

\* The inquiries feed delivers EOF: main returns.
InquiriesEOF ==
    /\ feed = "inquiries"
    /\ feed' = "done"
    /\ nRead' = 0
    /\ UNCHANGED <<bookingVars, execVars, hdlVars, pricingVars, guiVars, inqLog, recv, harness>>

\* ====================================================== price codec harness
\* Bytes a read before the first character may find: a zero byte, the
\* length byte a short string keeps in front of its characters, or '0'.
OobBytes == {0, 10, 48}

CodecPrices == 0..(MaxDollars * Tick + Tick - 1)

\* FormatPrice applied to the price under test.
CodecFormat ==
    /\ codec.pc = "price"
    /\ codec' = [codec EXCEPT !.pc = "string", !.str = FormatPrice(codec.price)]
    /\ UNCHANGED <<feed, nRead, bookingVars, execVars, hdlVars, pricingVars,
                   guiVars, inqLog, recv, svc, run, query, outw, inw, algo>>

\* CalculatePrice applied to the string FormatPrice produced.
CodecCalculate ==
    /\ codec.pc = "string"
    /\ \E oob \in OobBytes :
          codec' = [codec EXCEPT !.pc = "done", !.out = CalculatePrice(codec.str, oob)]
    /\ UNCHANGED <<feed, nRead, bookingVars, execVars, hdlVars, pricingVars,
                   guiVars, inqLog, recv, svc, run, query, outw, inw, algo>>

\* ================================================== lookups on the services
\* BondRiskService::GetData: the cached PV01, or a message and exit(0).
RiskGetData(rk, key) ==
    IF key \in DOMAIN rk THEN [kind |-> "value", value |-> rk[key]]
    ELSE [kind |-> "exit"]

\* BondPositionService::GetData: the cached position, or a message and exit(0).
PositionGetData(pos, key) ==
    IF key \in DOMAIN pos THEN [kind |-> "value", value |-> pos[key]]
    ELSE [kind |-> "exit"]

\* BondRiskService::GetBucketedRisk: the loop over the sector's products,
\* then pv01_value /= quantity on doubles; 0.0 / 0.0 is NaN and x / 0.0 is
\* infinite, which defined = FALSE stands for.
RECURSIVE BucketLoop(_, _, _, _)
BucketLoop(rk, products, quantity, pv01_value) ==
    IF products = <<>>
    THEN [kind |-> "value",
          pv01 |-> [defined |-> quantity /= 0, num |-> pv01_value, den |-> quantity],
          quantity |-> quantity]
    ELSE LET r == RiskGetData(rk, Head(products))
         IN  IF r.kind = "exit" THEN r
             ELSE BucketLoop(rk, Tail(products), quantity + r.value.quantity,
                             pv01_value + r.value.quantity * r.value.pv01)

GetBucketedRisk(rk, products) == BucketLoop(rk, products, 0, 0)

\* BondMarketDataService::GetBestBidOffer: a message and exit(0) when the
\* product has no book; otherwise both orders are read from GetOfferStack()[0].
GetBestBidOffer(obs, productId) ==
    IF productId \notin DOMAIN obs THEN [kind |-> "exit"]
    ELSE LET offer_order == obs[productId].offerStack[1]
             bid_order == obs[productId].offerStack[1]
         IN  [kind |-> "value", value |-> [bidOrder |-> bid_order, offerOrder |-> offer_order]]

\* GetData of the four services that define it.
GetData(service, key, wild) ==
    CASE service = "pricing" -> GetDataUnchecked(prices, key, wild)
      [] service = "tradebooking" -> GetDataUnchecked(trades, key, wild)
      [] service = "position" -> PositionGetData(positions, key)
      [] OTHER -> RiskGetData(risks, key)

\* The map GetData of a service searches.
LookupMap(service) ==
    CASE service = "pricing" -> prices
      [] service = "tradebooking" -> trades
      [] service = "position" -> positions
      [] OTHER -> risks

\* Keys lookups are made with: the catalog and a CUSIP outside it, the
\* trade ids of the feed and one it never carries.
LookupKeys(service) ==
    IF service = "tradebooking" THEN TradeIds \cup {<<"T", "9">>}
    ELSE Cusips \cup {"912810XX0"}

\* What dereferencing end() can do: fault, or hand back whatever lies there.
WildOutcomes == {[kind |-> "crash"], [kind |-> "value", value |-> "garbage"]}

\* Sectors GetBucketedRisk is asked for.
Sectors == {<<>>, <<"91282CAX9">>, <<"91282CAZ4", "91282CAX9">>}

\* exit(0) and a fault both end the process: no feed is read after them.
Ends(result) == result.kind \in {"exit", "crash"}

LookupUnchanged ==
    UNCHANGED <<nRead, bookingVars, execVars, hdlVars, pricingVars, guiVars,
                inqLog, recv, codec, svc, run, outw, inw, algo>>

\* One GetData call.
QueryGetData ==
    /\ feed /= "exited"
    /\ \E service \in {"pricing", "tradebooking", "position", "risk"} :
       \E key \in LookupKeys(service), wild \in WildOutcomes :
          LET r == GetData(service, key, wild)
          IN  /\ query' = [op |-> "GetData", service |-> service, key |-> key,
                           missing |-> key \notin DOMAIN LookupMap(service),
                           result |-> r]
              /\ feed' = IF Ends(r) THEN "exited" ELSE feed
    /\ LookupUnchanged

\* One GetBucketedRisk call.
QueryBucketedRisk ==
    /\ feed /= "exited"
    /\ \E products \in Sectors :
          LET r == GetBucketedRisk(risks, products)
          IN  /\ query' = [op |-> "GetBucketedRisk", products |-> products, result |-> r]
              /\ feed' = IF Ends(r) THEN "exited" ELSE feed
    /\ LookupUnchanged

\* One GetBestBidOffer call.
QueryBestBidOffer ==
    /\ feed /= "exited"
    /\ \E productId \in LookupKeys("marketdata") :
          LET r == GetBestBidOffer(orderbooks, productId)
          IN  /\ query' = [op |-> "GetBestBidOffer", key |-> productId, result |-> r]
              /\ feed' = IF Ends(r) THEN "exited" ELSE feed
    /\ LookupUnchanged

\* ===================================== a trade of an unknown product
\* A CUSIP outside the catalog of BondInfo.
UnknownCusip == "912810XX0"

\* A variant of the else branch that opens a position for the product and
\* notifies it.
AddTradeMissingInserts(pos, trade) ==
    [kind |-> "value", notified |-> 1,
     positions |-> pos @@ (trade.product :>
                      GetPositionInserts(AddPosition(<<>>, trade.book, trade.quantity, trade.side)))]

\* The else branch of BondPositionService::AddTrade, taken when find(cusip)
\* fails: the "Can't find bond" message and exit(0); the map is left as it
\* is and Notify is not called.
AddTradeMissing(pos, trade) ==
    [kind |-> "exit", notified |-> 0, positions |-> pos]

\* BondTradeBookingConnector::Subscribe loop body on a record whose CUSIP is
\* not in the catalog: BondInfo::CUSIPToDate dereferences date_map.find()
\* unchecked, which faults or hands back whatever lies there; in the latter
\* case the trade is built, cached by OnMessage and handed to AddTrade.
TradeUnknown ==
    /\ feed = "trades"
    /\ nRead < MaxTrades
    /\ \E id \in TradeIds, p \in TradePrices, b \in BookNames,
          q \in TradeQtys, s \in Sides, wild \in WildOutcomes :
          LET trade == [product |-> UnknownCusip, tradeId |-> id, price |-> p,
                        book |-> b, quantity |-> q, side |-> s]
              r == AddTradeMissing(positions, trade)
          IN  IF wild.kind = "crash"
              THEN /\ query' = [op |-> "CUSIPToDate", key |-> UnknownCusip, result |-> wild]
                   /\ feed' = "exited"
                   /\ UNCHANGED <<trades, recv, positions, hdlVars>>
              ELSE /\ trades' = CachePut(trades, id, trade)
                   /\ recv' = [service |-> "tradebooking", key |-> id, value |-> trade]
                   /\ query' = [op |-> "AddTrade", key |-> UnknownCusip,
                                result |-> [kind |-> r.kind]]
                   /\ positions' = r.positions
                   /\ SetHdl(HdlReceiveAll(HdlNow, "position", r.notified))
                   /\ feed' = IF r.kind = "exit" THEN "exited" ELSE feed
    /\ nRead' = nRead + 1
    /\ UNCHANGED <<bookingCount, netFlow, synthLog, risks, riskLog>>
    /\ UNCHANGED <<execVars, pricingVars, guiVars, inqLog, codec, svc, run,
                   outw, inw, algo>>

\* ================================================= the service fabric (soa)
\* A Service after construction: no listeners; no callback made yet.
SvcIdle == [listeners |-> <<>>, calls |-> <<>>, data |-> "", notified |-> 0]

\* The elements of a sequence.
Range(seq) == {seq[i] : i \in 1..Len(seq)}

\* Listener objects and the values handed to Notify.
ListenerIds == {"L1", "L2", "L3"}
NotifyData == {"v1", "v2"}

\* Service::AddListener: listeners.push_back(listener).
AddListener(listeners, listener) == Append(listeners, listener)

\* A variant of Notify that walks the listeners from the back.
NotifyReversed(listeners, data) ==
    [i \in 1..Len(listeners) |->
        [listener |-> listeners[Len(listeners) + 1 - i], method |-> "ProcessAdd",
         data |-> data]]

\* Service::Notify: for (auto listener : listeners) listener->ProcessAdd(data);
\* the callbacks made, in the order they are made.
Notify(listeners, data) ==
    [i \in 1..Len(listeners) |->
        [listener |-> listeners[i], method |-> "ProcessAdd", data |-> data]]

\* One AddListener call; main registers a listener object at most once on a
\* given service.
SvcAddListener ==
    /\ \E l \in ListenerIds \ Range(svc.listeners) :
          svc' = [svc EXCEPT !.listeners = AddListener(@, l)]
    /\ UNCHANGED <<feed, nRead, bookingVars, execVars, hdlVars, pricingVars,
                   guiVars, inqLog, recv, codec, run, query, outw, inw, algo>>

\* One Notify call.
SvcNotify ==
    /\ svc.notified < MaxNotifies
    /\ \E v \in NotifyData :
          svc' = [svc EXCEPT !.calls = Notify(svc.listeners, v),
                             !.data = v,
                             !.notified = @ + 1]
    /\ UNCHANGED <<feed, nRead, bookingVars, execVars, hdlVars, pricingVars,
                   guiVars, inqLog, recv, codec, run, query, outw, inw, algo>>

\* ============================================= the synchronous call chain
\* main, followed call by call: run.stack is the call stack (the running
\* function last), each frame holding what its function still has to do;
\* run.rec is the record the inbound connector read last; run.passed counts
\* the order books read so far that pass the spread gate; run.sock is the
\* socket of each outbound connector (lines its data_writer has not taken
\* yet, replies the connector has not read yet); run.files is every line the
\* data_writer processes have written, in the order they wrote them.
Feeds == {"trades", "marketdata", "prices", "inquiries"}

\* A variant of main that subscribes to the market data before the trades.
MainOrderSwapped == <<"marketdata", "trades", "prices", "inquiries">>

\* The Subscribe calls of main, in program order.
MainOrder == <<"trades", "marketdata", "prices", "inquiries">>

\* The service each inbound connector hands its records to.
ServiceOf(f) ==
    CASE f = "trades" -> "tradebooking"
      [] f = "marketdata" -> "marketdata"
      [] f = "prices" -> "pricing"
      [] OTHER -> "inquiry"

\* A variant of main that registers the historical listeners first.
ListenersHdlFirst(service) ==
    CASE service = "tradebooking" -> <<"bond_position_listener">>
      [] service = "position" -> <<"bond_position_HDL", "bond_risk_listener">>
      [] service = "risk" -> <<"bond_risk_HDL">>
      [] service = "marketdata" -> <<"bond_algo_execution_listener">>
      [] service = "algoexecution" -> <<"bond_execution_listener">>
      [] service = "execution" -> <<"bond_execution_HDL", "bond_trade_booking_listener">>
      [] service = "pricing" -> <<"gui_service_listener", "bond_algo_streaming_listener">>
      [] service = "algostreaming" -> <<"bond_streaming_listener">>
      [] service = "streaming" -> <<"bond_streaming_HDL">>
      [] OTHER -> <<"bond_allinquiries_HDL">>

\* A variant of main that does not register the risk listener.
ListenersRiskUnwired(service) ==
    CASE service = "tradebooking" -> <<"bond_position_listener">>
      [] service = "position" -> <<"bond_position_HDL">>
      [] service = "risk" -> <<"bond_risk_HDL">>
      [] service = "marketdata" -> <<"bond_algo_execution_listener">>
      [] service = "algoexecution" -> <<"bond_execution_listener">>
      [] service = "execution" -> <<"bond_trade_booking_listener", "bond_execution_HDL">>
      [] service = "pricing" -> <<"gui_service_listener", "bond_algo_streaming_listener">>
      [] service = "algostreaming" -> <<"bond_streaming_listener">>
      [] service = "streaming" -> <<"bond_streaming_HDL">>
      [] OTHER -> <<"bond_allinquiries_HDL">>

\* The listeners of each service, in the order main registers them.
Listeners(service) ==
    CASE service = "tradebooking" -> <<"bond_position_listener">>
      [] service = "position" -> <<"bond_risk_listener", "bond_position_HDL">>
      [] service = "risk" -> <<"bond_risk_HDL">>
      [] service = "marketdata" -> <<"bond_algo_execution_listener">>
      [] service = "algoexecution" -> <<"bond_execution_listener">>
      [] service = "execution" -> <<"bond_trade_booking_listener", "bond_execution_HDL">>
      [] service = "pricing" -> <<"gui_service_listener", "bond_algo_streaming_listener">>
      [] service = "algostreaming" -> <<"bond_streaming_listener">>
      [] service = "streaming" -> <<"bond_streaming_HDL">>
      [] OTHER -> <<"bond_allinquiries_HDL">>

Step(op, fn, arg) == [op |-> op, fn |-> fn, arg |-> arg]
Call(fn, arg) == Step("call", fn, arg)

\* ProcessAdd of each listener: the one call it makes.
ProcessAdd(listener) ==
    CASE listener = "bond_position_listener" -> <<Call("AddTrade", "")>>
      [] listener = "bond_risk_listener" -> <<Call("AddPosition", "")>>
      [] listener = "bond_algo_execution_listener" -> <<Call("AlgoExecute", "")>>
      [] listener = "bond_execution_listener" -> <<Call("ExecuteOrder", "")>>
      [] listener = "bond_trade_booking_listener" -> <<Call("BookTrade", "")>>
      [] listener = "gui_service_listener" -> <<Call("ProvideData", "")>>
      [] listener = "bond_algo_streaming_listener" -> <<Call("AlgoPublishPrice", "")>>
      [] listener = "bond_streaming_listener" -> <<Call("PublishPrice", "")>>
      [] listener = "bond_position_HDL" -> <<Call("PersistData", "position")>>
      [] listener = "bond_risk_HDL" -> <<Call("PersistData", "risk")>>
      [] listener = "bond_execution_HDL" -> <<Call("PersistData", "execution")>>
      [] listener = "bond_streaming_HDL" -> <<Call("PersistData", "streaming")>>
      [] OTHER -> <<Call("PersistData", "allinquiries")>>

\* A variant of Publish that does not wait for the data_writer's reply.
PublishNoAck(connector) == <<Step("send", "", connector)>>

\* Publish of an outbound connector: send_socket(line), then read_socket()
\* for the data_writer's "success".
Publish(connector) == <<Step("send", "", connector), Step("ack", "", connector)>>

\* BondInquiryService::OnMessage: what it does for the state it finds.
InquiryOnMessageBody(state) ==
    CASE state = "RECEIVED" -> <<Call("SendQuote", "")>>
      [] state = "QUOTED" ->
            <<Step("set", "", "DONE"), Call("SendQuote", ""), Call("Notify", "inquiry")>>
      [] OTHER -> <<Step("set", "", "REJECTED"), Call("Notify", "inquiry")>>

\* What a function does, in program order, when called while rec is the
\* record in flight.  rec.flag is the branch the record's data selects:
\* the spread gate of AlgoExecute, the throttle and cap of ProvideData.
Body(fn, arg, rec) ==
    CASE fn = "main" -> [i \in 1..Len(MainOrder) |-> Call("Subscribe", MainOrder[i])]
      [] fn = "Subscribe" -> <<Step("read", "", arg)>>
      [] fn = "OnMessage" ->
            IF arg = "inquiry" THEN InquiryOnMessageBody(rec.state)
            ELSE <<Call("Notify", arg)>>
      [] fn = "Notify" ->
            [i \in 1..Len(Listeners(arg)) |->
                Call(Notify(Listeners(arg), rec)[i].method,
                     Notify(Listeners(arg), rec)[i].listener)]
      [] fn = "ProcessAdd" -> ProcessAdd(arg)
      [] fn = "AddTrade" -> <<Call("Notify", "position")>>
      [] fn = "AddPosition" -> <<Call("Notify", "risk")>>
      [] fn = "AlgoExecute" ->
            IF rec.flag THEN <<Call("Notify", "algoexecution")>> ELSE <<>>
      [] fn = "ExecuteOrder" -> <<Call("Notify", "execution")>>
      [] fn = "BookTrade" -> <<Call("Notify", "tradebooking")>>
      [] fn = "ProvideData" -> IF rec.flag THEN <<Call("Publish", "gui")>> ELSE <<>>
      [] fn = "AlgoPublishPrice" -> <<Call("Notify", "algostreaming")>>
      [] fn = "PublishPrice" -> <<Call("Notify", "streaming")>>
      [] fn = "PersistData" -> <<Call("Publish", arg)>>
      [] fn = "Publish" -> Publish(arg)
      [] fn = "SendQuote" -> <<Step("quote", "", ""), Step("callIfQuoted", "", "")>>
      [] OTHER -> <<>>

Frame(fn, arg, rec) == [fn |-> fn, arg |-> arg, todo |-> Body(fn, arg, rec)]

NoRecord == [feed |-> "", idx |-> 0, flag |-> FALSE, state |-> ""]

\* main before its first statement.
RunIdle ==
    [stack |-> <<Frame("main", "", NoRecord)>>,
     rec |-> NoRecord,
     nread |-> [f \in Feeds |-> 0],
     passed |-> 0,
     eof |-> {},
     sock |-> [x \in ConnectorNames |-> [pending |-> <<>>, replies |-> 0]],
     files |-> <<>>]

\* The running frame, the frames below it, and the step the running frame
\* takes next ("return" when it has nothing left to do).
RunTop == run.stack[Len(run.stack)]
RunRest == SubSeq(run.stack, 1, Len(run.stack) - 1)
RunOp ==
    IF run.stack = <<>> THEN Step("halt", "", "")
    ELSE IF RunTop.todo = <<>> THEN Step("return", "", "")
    ELSE Head(RunTop.todo)
RunAdvanced == Append(RunRest, [RunTop EXCEPT !.todo = Tail(@)])

RunUnchanged ==
    UNCHANGED <<feed, nRead, bookingVars, execVars, hdlVars, pricingVars,
                guiVars, inqLog, recv, codec, svc, query, outw, inw, algo>>

\* A call, a return, or a statement that only touches the inquiry in flight
\* (SetState, QuoteConnector::Publish, the test after it in SendQuote).
RunCall ==
    /\ \/ /\ RunOp.op = "call"
          /\ run' = [run EXCEPT !.stack =
                         Append(RunAdvanced, Frame(RunOp.fn, RunOp.arg, run.rec))]
       \/ /\ RunOp.op = "return"
          /\ run' = [run EXCEPT !.stack = RunRest]
       \/ /\ RunOp.op = "set"
          /\ run' = [run EXCEPT !.stack = RunAdvanced, !.rec.state = RunOp.arg]
       \/ /\ RunOp.op = "quote"
          /\ run' = [run EXCEPT !.stack = RunAdvanced,
                                !.rec = QuotePublish(run.rec)]
       \/ /\ RunOp.op = "callIfQuoted"
          /\ run' = [run EXCEPT !.stack =
                         IF run.rec.state = "QUOTED"
                         THEN Append(RunAdvanced, Frame("OnMessage", "inquiry", run.rec))
                         ELSE RunAdvanced]
    /\ RunUnchanged

\* The branch a record's data can select in the functions it reaches.
RunFlags(f) == IF f \in {"marketdata", "prices"} THEN BOOLEAN ELSE {TRUE}

\* Subscribe of an inbound connector: read_socket returned a record; the
\* loop body calls OnMessage and then reads again.
RunRead ==
    /\ RunOp.op = "read"
    /\ run.nread[RunOp.arg] < MaxRunRecords
    /\ \E flag \in RunFlags(RunOp.arg) :
          run' = [run EXCEPT
                     !.rec = [feed |-> RunOp.arg, idx |-> run.nread[RunOp.arg] + 1,
                              flag |-> flag, state |-> "RECEIVED"],
                     !.nread[RunOp.arg] = @ + 1,
                     !.passed = IF RunOp.arg = "marketdata" /\ flag THEN @ + 1 ELSE @,
                     !.stack = Append(RunRest,
                                  [RunTop EXCEPT !.todo =
                                      <<Call("OnMessage", ServiceOf(RunOp.arg)), RunOp>>])]
    /\ RunUnchanged

\* Subscribe of an inbound connector: read_socket returned EOF; the loop ends.
RunEOF ==
    /\ RunOp.op = "read"
    /\ run' = [run EXCEPT !.eof = @ \cup {RunOp.arg}, !.stack = RunAdvanced]
    /\ RunUnchanged

\* send_socket of an outbound connector: one line for the record in flight.
RunSend ==
    /\ RunOp.op = "send"
    /\ run' = [run EXCEPT
                   !.stack = RunAdvanced,
                   !.sock[RunOp.arg].pending =
                       Append(@, [connector |-> RunOp.arg, feed |-> run.rec.feed,
                                  idx |-> run.rec.idx])]
    /\ RunUnchanged

\* read_socket of an outbound connector: blocks until the data_writer replied.
RunAck ==
    /\ RunOp.op = "ack"
    /\ run.sock[RunOp.arg].replies > 0
    /\ run' = [run EXCEPT !.stack = RunAdvanced, !.sock[RunOp.arg].replies = @ - 1]
    /\ RunUnchanged

\* DataPublisher::Subscribe loop body in a data_writer process: take a
\* line, write it to the file, send "success".
RunWriter ==
    /\ \E x \in ConnectorNames :
          /\ run.sock[x].pending /= <<>>
          /\ run' = [run EXCEPT !.files = Append(@, Head(run.sock[x].pending)),
                                !.sock[x].pending = Tail(@),
                                !.sock[x].replies = @ + 1]
    /\ RunUnchanged

\* ============================================================ the transport
\* What travels on a socket: a newline, or the text of one message.
Tok(t, k) == [t |-> t, k |-> k]
NL == Tok("nl", 0)

\* Connector::read_socket: read_until(socket, buf, "\n") and the whole
\* buffer as the result; the read ends after some newline of what the peer
\* has sent: ReadChoices are the lengths it can return.
ReadChoices(stream) == {k \in 1..Len(stream) : stream[k] = NL}

\* Connector::trim: every newline removed.
Trim(data) == SelectSeq(data, LAMBDA x : x /= NL)

Drop(stream, k) == SubSeq(stream, k + 1, Len(stream))

\* A variant of the outbound line with a single newline.
OutLineSingle(k) == <<Tok("rec", k), NL>>

\* Publish of an outbound connector: line = ... + "\n", then
\* send_socket(socket, line + "\n").
OutLine(k) == <<Tok("rec", k), NL, NL>>

\* An outbound connector about to be constructed, its data_writer in accept.
OutIdle ==
    [cpc |-> "ctor", wpc |-> "accept", c2w |-> <<>>, w2c |-> <<>>,
     file |-> <<>>, published |-> 0, eofs |-> 0]

\* An inbound connector about to Subscribe, its data_reader in accept.
InIdle ==
    [cpc |-> "start", rpc |-> "accept", c2r |-> <<>>, r2c |-> <<>>,
     file |-> <<>>, pos |-> 0, sent |-> <<>>, eofs |-> 0, reqs |-> 0,
     got |-> <<>>]

\* The files a data_reader can find: up to MaxInRecords records, repeated
\* records included.
RECURSIVE SeqsUpTo(_, _)
SeqsUpTo(S, n) ==
    IF n = 0 THEN {<<>>}
    ELSE LET shorter == SeqsUpTo(S, n - 1)
         IN  shorter \cup {Append(q, x) : q \in shorter, x \in S}
InFiles == SeqsUpTo({1, 2}, MaxInRecords)

TransportUnchanged ==
    UNCHANGED <<feed, nRead, bookingVars, execVars, hdlVars, pricingVars,
                guiVars, inqLog, recv, codec, svc, run, query, algo>>

\* The connector's constructor: send_socket(file_name + "\n").
OutCtorSend ==
    /\ outw.cpc = "ctor"
    /\ outw' = [outw EXCEPT !.cpc = "ctor_wait",
                            !.c2w = @ \o <<Tok("name", 0), NL>>]
    /\ TransportUnchanged /\ UNCHANGED inw

\* read_socket in the constructor or in Publish: whatever it returns is
\* taken for the writer's "success".
OutConnRead ==
    /\ outw.cpc \in {"ctor_wait", "pub_wait"}
    /\ \E k \in ReadChoices(outw.w2c) :
          outw' = [outw EXCEPT !.cpc = "idle", !.w2c = Drop(@, k)]
    /\ TransportUnchanged /\ UNCHANGED inw

\* Publish, up to its send_socket.
OutPublish ==
    /\ outw.cpc = "idle"
    /\ outw.published < MaxOutRecords
    /\ outw' = [outw EXCEPT !.cpc = "pub_wait",
                            !.published = @ + 1,
                            !.c2w = @ \o OutLine(outw.published + 1)]
    /\ TransportUnchanged /\ UNCHANGED inw

\* The connector's destructor, run when main returns: send_socket("EOF\n");
\* the socket is closed with it.
OutDtor ==
    /\ outw.cpc = "idle"
    /\ outw' = [outw EXCEPT !.cpc = "closed",
                            !.eofs = @ + 1,
                            !.c2w = @ \o <<Tok("eof", 0), NL>>]
    /\ TransportUnchanged /\ UNCHANGED inw

\* DataPublisher::Subscribe in the data_writer: the read of the file name,
\* then the loop: a line other than "EOF" is written and answered with
\* "success"; "EOF" ends the loop and closes the file.
OutWriterRead ==
    /\ outw.wpc \in {"accept", "loop"}
    /\ \E k \in ReadChoices(outw.c2w) :
          LET line == Trim(SubSeq(outw.c2w, 1, k))
              rest == Drop(outw.c2w, k)
              ok == <<Tok("success", 0), NL>>
          IN  IF outw.wpc = "accept"
              THEN outw' = [outw EXCEPT !.wpc = "loop", !.c2w = rest, !.w2c = @ \o ok]
              ELSE IF line = <<Tok("eof", 0)>>
              THEN outw' = [outw EXCEPT !.wpc = "closed", !.c2w = rest]
              ELSE outw' = [outw EXCEPT !.c2w = rest, !.w2c = @ \o ok,
                                        !.file = Append(@, line)]
    /\ TransportUnchanged /\ UNCHANGED inw

\* read_socket in the data_writer when the connector has closed the socket
\* and no line is left: read_until throws, nothing catches it, the process
\* is aborted inside its loop.
OutWriterAbort ==
    /\ outw.wpc \in {"accept", "loop"}
    /\ outw.cpc = "closed"
    /\ ReadChoices(outw.c2w) = {}
    /\ outw' = [outw EXCEPT !.wpc = "aborted"]
    /\ TransportUnchanged /\ UNCHANGED inw

\* A variant of the inbound line with a doubled newline.
InLineDouble(k) == <<Tok("rec", k), NL, NL>>

\* DataPublisher::Publish: line += "\n"; send_socket(socket_, line).
InLine(k) == <<Tok("rec", k), NL>>

\* The file-name line of an inbound connector: file_name += "\n", sent as
\* it is at connection and again after every record.
InRequest == <<Tok("name", 0), NL>>

\* BondTradeBookingConnector::Subscribe up to its first read_socket.
InSubscribe ==
    /\ inw.cpc = "start"
    /\ inw' = [inw EXCEPT !.cpc = "wait", !.reqs = @ + 1, !.c2r = @ \o InRequest]
    /\ TransportUnchanged /\ UNCHANGED outw

\* The head of the data_reader's loop with open file f after pos records:
\* getline, then the record and a wait for the next request, or "EOF\n"
\* and the end of Publish.
ReaderLoop(w, f, rest) ==
    IF w.pos < Len(f)
    THEN [w EXCEPT !.rpc = "wait", !.file = f, !.c2r = rest,
                   !.pos = @ + 1,
                   !.sent = Append(@, f[w.pos + 1]),
                   !.r2c = @ \o InLine(f[w.pos + 1])]
    ELSE [w EXCEPT !.rpc = "done", !.file = f, !.c2r = rest,
                   !.eofs = @ + 1,
                   !.r2c = @ \o <<Tok("eof", 0), NL>>]

\* DataPublisher::Publish: the read of the file name opens the file, every
\* later read is a request for the next record.
InReaderRead ==
    /\ inw.rpc \in {"accept", "wait"}
    /\ \E k \in ReadChoices(inw.c2r) :
          \E f \in (IF inw.rpc = "accept" THEN InFiles ELSE {inw.file}) :
              inw' = ReaderLoop(inw, f, Drop(inw.c2r, k))
    /\ TransportUnchanged /\ UNCHANGED outw

\* Subscribe's read_socket, trim and loop body: "EOF" ends the loop, any
\* other line is parsed and passed to OnMessage, then the next is requested.
InConnRead ==
    /\ inw.cpc = "wait"
    /\ \E k \in ReadChoices(inw.r2c) :
          LET line == Trim(SubSeq(inw.r2c, 1, k))
              rest == Drop(inw.r2c, k)
          IN  IF line = <<Tok("eof", 0)>>
              THEN inw' = [inw EXCEPT !.cpc = "done", !.r2c = rest]
              ELSE inw' = [inw EXCEPT !.r2c = rest,
                                      !.got = Append(@, line),
                                      !.reqs = @ + 1,
                                      !.c2r = @ \o InRequest]
    /\ TransportUnchanged /\ UNCHANGED outw

InConnector == InSubscribe \/ InConnRead

OutConnector == OutCtorSend \/ OutConnRead \/ OutPublish \/ OutDtor
OutWriter == OutWriterRead \/ OutWriterAbort

\* ========================================================== specifications
\* A variant of the constructor that leaves the cache empty.
PositionsInitEmpty == <<>>

\* BondPositionService::BondPositionService: an empty Position for every
\* CUSIP of BondInfo::GetCUSIP.
PositionsInit == [c \in Cusips |-> <<>>]

CodecIdle == [pc |-> "idle", price |-> 0, str |-> <<>>, out |-> 0]

\* The state main() has built when the given feed is about to be read and
\* every earlier feed was empty.
InitAt(f) ==
    /\ feed = f
    /\ nRead = 0
    /\ trades = <<>>
    /\ bookingCount = 0
    /\ positions = PositionsInit
    /\ orderbooks = <<>>
    /\ algoExecCount = 0
    /\ hdlCount = [l \in HdlNames |-> 0]
    /\ keyLog = [l \in HdlNames |-> <<>>]
    /\ published = [l \in ConnectorNames |-> 0]
    /\ netFlow = [c \in Cusips |-> 0]
    /\ lastBook = None
    /\ execLog = [n |-> 0, order |-> None]
    /\ synthLog = [n |-> 0, trade |-> None]
    /\ prices = <<>>
    /\ now = 0
    /\ gui = [last_time |-> 0, count |-> 0]
    /\ guiLog = [emitted |-> FALSE, due |-> FALSE, prev |-> -1, last |-> -1, at |-> 0]
    /\ algoStreamCount = 0
    /\ streamLog = [n |-> 0, stream |-> None]
    /\ inqLog = None
    /\ risks = <<>>
    /\ riskLog = [n |-> 0, pv01 |-> None, line |-> None]
    /\ recv = None
    /\ svc = SvcIdle
    /\ run = RunIdle
    /\ query = None
    /\ outw = OutIdle
    /\ inw = InIdle
    /\ algo = AlgoIdle

Init == InitAt("trades") /\ codec = CodecIdle

Next ==
    \/ TradeMsg \/ TradesEOF
    \/ MarketDataMsg \/ MarketDataEOF
    \/ PriceMsg \/ PricesEOF
    \/ InquiryMsg \/ InquiriesEOF

\* The whole run of main: the four feeds in startup order.
Spec == Init /\ [][Next]_vars

\* The trades feed with records of unknown products.
NextUnknown == TradeMsg \/ TradeUnknown
SpecUnknown == Init /\ [][NextUnknown]_vars

\* The trades feed alone.
NextBooking == TradeMsg
SpecBooking == Init /\ [][NextBooking]_vars

\* The trades feed, then the market-data feed.
NextTrading == TradeBeforeMarketData \/ TradesEOF \/ MarketDataAfterTrades
SpecTrading == Init /\ [][NextTrading]_vars

\* The market-data feed.
InitExec == InitAt("marketdata") /\ codec = CodecIdle
NextExec == MarketDataMsg
SpecExec == InitExec /\ [][NextExec]_vars

\* The market-data feed with records of any prices.
NextCrossed == MarketDataAny
SpecCrossed == InitExec /\ [][NextCrossed]_vars

\* The prices feed.
InitPricing == InitAt("prices") /\ codec = CodecIdle
NextPricing == PriceMsg
SpecPricing == InitPricing /\ [][NextPricing]_vars

\* The GUI service under a stream of prices.
NextGui == GuiProvideData
SpecGui == InitPricing /\ [][NextGui]_vars

\* The GUI service under a clock that can be set back.
NextGuiClock == GuiProvideDataAnyClock
SpecGuiClock == InitPricing /\ [][NextGuiClock]_vars

\* The inquiry service.
InitInquiry == InitAt("inquiries") /\ codec = CodecIdle
NextInquiry == InquiryMsg \/ InquiryOnMessage
SpecInquiry == InitInquiry /\ [][NextInquiry]_vars

\* The price codec on every price of the bounded range.
InitCodec ==
    /\ InitAt("done")
    /\ \E p \in CodecPrices : codec = [pc |-> "price", price |-> p, str |-> <<>>, out |-> 0]
NextCodec == CodecFormat \/ CodecCalculate
SpecCodec == InitCodec /\ [][NextCodec]_vars

\* Each caching service under its own feed.
InitCache ==
    /\ \E f \in {"trades", "marketdata", "prices"} : InitAt(f)
    /\ codec = CodecIdle
NextCache == TradeMsg \/ MarketDataMsg \/ PriceMsg
SpecCache == InitCache /\ [][NextCache]_vars

\* Lookups made on the services while a feed is being read.
NextLookup ==
    \/ TradeRecord(LookupRecords)
    \/ MarketDataRecord(LookupRecords)
    \/ PriceRecord(LookupRecords)
    \/ QueryGetData
    \/ QueryBucketedRisk
    \/ QueryBestBidOffer
SpecLookup == InitCache /\ [][NextLookup]_vars

\* An outbound connector and its data_writer, each running whenever it can.
InitOutbound == InitAt("done") /\ codec = CodecIdle
NextOutbound == OutConnector \/ OutWriter
SpecOutbound ==
    InitOutbound /\ [][NextOutbound]_vars
        /\ WF_vars(OutConnector) /\ WF_vars(OutWriter)

\* An inbound connector and its data_reader, each running whenever it can.
InitInbound == InitAt("trades") /\ codec = CodecIdle
NextInbound == InConnector \/ InReaderRead
SpecInbound ==
    InitInbound /\ [][NextInbound]_vars
        /\ WF_vars(InConnector) /\ WF_vars(InReaderRead)

\* AlgoExecute and ExecuteOrder on free inputs.
InitAlgo == InitAt("marketdata") /\ codec = CodecIdle
NextAlgo == AlgoStep
SpecAlgo == InitAlgo /\ [][NextAlgo]_vars

\* A service, its listeners and its Notify calls.
InitFabric == InitAt("done") /\ codec = CodecIdle
NextFabric == SvcAddListener \/ SvcNotify
SpecFabric == InitFabric /\ [][NextFabric]_vars

\* main followed call by call, with the data_writer processes.
InitRun == InitAt("done") /\ codec = CodecIdle
NextRun == RunCall \/ RunRead \/ RunEOF \/ RunSend \/ RunAck \/ RunWriter
SpecRun == InitRun /\ [][NextRun]_vars


\* =================================================================== claims

\* C1: for every catalog CUSIP the aggregate position equals the signed sum
\* (+quantity for BUY, -quantity for SELL) of the trades processed for it,
\* inbound and synthesized alike.
C1_PositionConservation ==
    \A c \in Cusips : GetAggregatePosition(positions[c]) = netFlow[c]

\* An inbound SELL of 400000 and two synthesized trades (BUY 1000000, then
\* SELL 1000000) have all been processed for one product.
C1_Witness ==
    /\ synthLog.n = 2
    /\ \E c \in Cusips, id \in DOMAIN trades :
          /\ trades[id].product = c
          /\ trades[id].side = "SELL"
          /\ trades[id].quantity = 400000
          /\ synthLog.trade.product = c
          /\ positions[c]["TRSY2"] = 1000000
          /\ positions[c]["TRSY3"] = -1000000
          /\ netFlow[c] = -400000

\* C2: a book whose spread (best offer - best bid) is above 1/128 makes
\* AlgoExecute emit nothing.
C2_SpreadGate ==
    lastBook /= None => (lastBook.spread * 128 > Tick => ~lastBook.emitted)

\* A book of spread 3/256 was dropped after an earlier book was executed.
C2_Witness ==
    /\ lastBook /= None
    /\ lastBook.spread = 3
    /\ ~lastBook.emitted
    /\ execLog.n > 0

\* C3: the sides of the emitted ExecutionOrders alternate BID, OFFER, BID,
\* ... starting with BID: the k-th emitted order is BID exactly when k is odd.
C3_SidesAlternate ==
    execLog.n > 0 =>
        execLog.order.side = (IF execLog.n % 2 = 1 THEN "BID" ELSE "OFFER")

\* C4: every ExecutionOrder BondExecutionService notifies gives exactly one
\* trade at the position service, with the order's visible quantity, price,
\* id and product, side BUY for BID and SELL for OFFER, and book
\* TRSY(1 + k mod 3) for the k-th execution.
C4_ExecutionToTrade ==
    /\ synthLog.n = execLog.n
    /\ published["position"] = execLog.n
    /\ execLog.n > 0 =>
          LET o == execLog.order
              t == synthLog.trade
              k == execLog.n
          IN  /\ t.quantity = o.visibleQuantity
              /\ t.price = o.price
              /\ t.tradeId = o.orderId
              /\ t.product = o.product
              /\ t.side = (IF o.side = "BID" THEN "BUY" ELSE "SELL")
              /\ t.book = (CASE k % 3 = 1 -> "TRSY2"
                             [] k % 3 = 2 -> "TRSY3"
                             [] OTHER -> "TRSY1")

\* The fourth execution has been booked: the books have cycled back to TRSY2.
C4_Witness ==
    /\ execLog.n = 4
    /\ synthLog.trade.book = "TRSY2"
    /\ synthLog.trade.side = "SELL"

\* C5: an inquiry handed to OnMessage in state RECEIVED ends DONE or
\* REJECTED and is notified to the listeners (one allinquiries record)
\* exactly once.
C5_InquiryTerminal ==
    (inqLog /= None /\ inqLog.input.state = "RECEIVED") =>
        /\ inqLog.result.inq.state \in {"DONE", "REJECTED"}
        /\ Len(inqLog.result.notified) = 1
        /\ inqLog.result.notified[1].state \in {"DONE", "REJECTED"}
        /\ inqLog.result.notified[1].inquiryId = inqLog.input.inquiryId
        /\ published["allinquiries"] = inqLog.records + 1

\* A second RECEIVED inquiry has gone through to DONE.
C5_Witness ==
    /\ inqLog /= None
    /\ inqLog.input.state = "RECEIVED"
    /\ inqLog.result.inq.state = "DONE"
    /\ inqLog.records = 1
    /\ published["allinquiries"] = 2

\* C6: the timestamps of consecutive GUI records are non-decreasing and at
\* least 300 ms apart.
C6_GuiSpacing ==
    guiLog.prev >= 0 => guiLog.last - guiLog.prev >= 300

\* C7: GUIService never publishes more than 100 prices.
C7_GuiCap == published["gui"] <= 100

\* The 100th price has been published and a later price, arriving a full
\* throttle interval after it, was dropped.
C7_Witness ==
    /\ published["gui"] = 100
    /\ guiLog.due
    /\ ~guiLog.emitted

\* C8: the k-th PriceStream emitted has visible quantity 2000000 for odd k
\* and 1000000 for even k on both sides, and hidden quantity twice that.
C8_StreamSizes ==
    /\ published["streaming"] = streamLog.n
    /\ streamLog.n > 0 =>
          LET v == IF streamLog.n % 2 = 1 THEN 2000000 ELSE 1000000
              st == streamLog.stream
          IN  /\ st.bidOrder.visibleQuantity = v
              /\ st.offerOrder.visibleQuantity = v
              /\ st.bidOrder.hiddenQuantity = 2 * v
              /\ st.offerOrder.hiddenQuantity = 2 * v

\* The third stream has been emitted, over prices of two products.
C8_Witness ==
    /\ streamLog.n = 3
    /\ Cardinality(DOMAIN prices) = 2
    /\ streamLog.stream.bidOrder.visibleQuantity = 2000000

\* C9: the keys each HistoricalDataListener generates are 0, 1, 2, ... in
\* order, one per entity received.
C9_HistoricalKeys ==
    \A l \in HdlNames :
        /\ Len(keyLog[l]) = published[l]
        /\ \A i \in 1..Len(keyLog[l]) : keyLog[l][i] = to_string(i - 1)

\* The risk, position and execution listeners have each generated their
\* fourth key.
C9_Witness ==
    /\ keyLog["position"] = <<to_string(0), to_string(1), to_string(2), to_string(3)>>
    /\ keyLog["risk"] = keyLog["position"]
    /\ keyLog["execution"] = keyLog["position"]

\* C10: for every price p that is a non-negative multiple of 1/256,
\* CalculatePrice(FormatPrice(p)) is within 1/256 of p.
C10_CodecRoundTrip ==
    codec.pc = "done" =>
        (codec.out - codec.price <= 1 /\ codec.price - codec.out <= 1)

\* C11: a Notify call makes exactly one callback per registered listener, in
\* registration order, every one of them ProcessAdd with the value notified.
C11_NotifyOrder ==
    [][svc'.notified = svc.notified + 1 =>
          /\ Len(svc'.calls) = Len(svc.listeners)
          /\ \A i \in 1..Len(svc.listeners) :
                /\ svc'.calls[i].listener = svc.listeners[i]
                /\ svc'.calls[i].method = "ProcessAdd"
                /\ svc'.calls[i].data = svc'.data
          /\ \A l \in Range(svc.listeners) :
                Cardinality({i \in 1..Len(svc'.calls) : svc'.calls[i].listener = l}) = 1]_vars

\* The second Notify reached three listeners registered in the order L2, L3, L1.
C11_Witness ==
    /\ svc.notified = 2
    /\ svc.listeners = <<"L2", "L3", "L1">>
    /\ Len(svc.calls) = 3
    /\ svc.calls[1].listener = "L2"
    /\ svc.calls[3].listener = "L1"

\* The outbound connectors a record reaches, by its feed and the branch its
\* data selects.
RunOutputs(rec) ==
    CASE rec.feed = "trades" -> {"risk", "position"}
      [] rec.feed = "marketdata" ->
            IF rec.flag THEN {"risk", "position", "execution"} ELSE {}
      [] rec.feed = "prices" -> IF rec.flag THEN {"gui", "streaming"} ELSE {"streaming"}
      [] rec.feed = "inquiries" -> {"allinquiries"}
      [] OTHER -> {}

FeedRank(f) ==
    CASE f = "trades" -> 1 [] f = "marketdata" -> 2 [] f = "prices" -> 3 [] OTHER -> 4

\* C13: a record of a feed is read only when every earlier feed of the order
\* trades, market data, prices, inquiries has delivered EOF; the lines
\* written follow that order, and no line derived from an inbound trade is
\* written after an execution line.
C13_FeedSequencing ==
    /\ \A f, g \in Feeds :
          (FeedRank(f) < FeedRank(g) /\ (run.nread[g] > 0 \/ g \in run.eof))
              => f \in run.eof
    /\ \A i, j \in 1..Len(run.files) :
          i < j => /\ FeedRank(run.files[i].feed) <= FeedRank(run.files[j].feed)
                   /\ ~(run.files[i].connector = "execution"
                        /\ run.files[j].feed = "trades")

\* Records of all four feeds were read; position lines of inbound trades
\* and execution lines have been written.
C13_Witness ==
    /\ \A f \in Feeds : run.nread[f] > 0
    /\ \E i, j \in 1..Len(run.files) :
          /\ run.files[i].feed = "trades"
          /\ run.files[i].connector = "position"
          /\ run.files[j].connector = "execution"
    /\ run.files[Len(run.files)].connector = "allinquiries"

C15_RiskCache ==
    (/\ query /= None
     /\ query.op = "GetData"
     /\ query.service = "risk"
     /\ query.key \in Cusips
     /\ published["risk"] > 0
     /\ positions[query.key] /= <<>>) =>
        query.result = [kind |-> "value",
                        value |-> [product |-> query.key, pv01 |-> GetPV01(query.key),
                                   quantity |-> GetAggregatePosition(positions[query.key])]]

\* C16: GetData with a key the service's map does not hold ends in the
\* not-found diagnostic and exit; it returns nothing.
C16_GetDataMissing ==
    (query /= None /\ query.op = "GetData" /\ query.missing) =>
        query.result.kind = "exit"

\* The total quantity of the products of a sector that have a cached PV01.
RECURSIVE PresentQuantity(_, _)
PresentQuantity(rk, products) ==
    IF products = <<>> THEN 0
    ELSE (IF Head(products) \in DOMAIN rk THEN rk[Head(products)].quantity ELSE 0)
         + PresentQuantity(rk, Tail(products))

\* C17: GetBucketedRisk over a sector with products that have no cached PV01
\* returns a value whose quantity is the total over the products that have
\* one; it does not end the process.
C17_BucketedAbsent ==
    (/\ query /= None
     /\ query.op = "GetBucketedRisk"
     /\ \E i \in 1..Len(query.products) : query.products[i] \notin DOMAIN risks) =>
        /\ query.result.kind = "value"
        /\ query.result.quantity = PresentQuantity(risks, query.products)

\* C18: GetBucketedRisk over a sector whose total quantity is zero (the
\* empty sector included) returns PV01 0 and quantity 0.
C18_BucketedZero ==
    (/\ query /= None
     /\ query.op = "GetBucketedRisk"
     /\ \A i \in 1..Len(query.products) : query.products[i] \in DOMAIN risks
     /\ PresentQuantity(risks, query.products) = 0) =>
        /\ query.result.kind = "value"
        /\ query.result.quantity = 0
        /\ query.result.pv01.defined
        /\ query.result.pv01.num = 0

\* C19: GetBestBidOffer(c) for a product with a cached book returns element
\* 0 of the book's bid stack as the bid order and element 0 of its offer
\* stack as the offer order.
C19_BestBidOffer ==
    (/\ query /= None
     /\ query.op = "GetBestBidOffer"
     /\ query.key \in DOMAIN orderbooks) =>
        /\ query.result.kind = "value"
        /\ query.result.value.bidOrder = orderbooks[query.key].bidStack[1]
        /\ query.result.value.offerOrder = orderbooks[query.key].offerStack[1]

\* C20: an inquiry handed to OnMessage in state DONE is notified to the
\* listeners and stays DONE.
C20_DoneIsTerminal ==
    (inqLog /= None /\ inqLog.input.state = "DONE") =>
        /\ inqLog.result.inq.state = "DONE"
        /\ Len(inqLog.result.notified) = 1
        /\ inqLog.result.notified[1].state = "DONE"

\* C21: an inquiry handed to OnMessage in state REJECTED or
\* CUSTOMER_REJECTED ends REJECTED and is notified to the listeners once,
\* as REJECTED; no quote is sent and OnMessage is not entered again.
C21_UnexpectedState ==
    (inqLog /= None /\ inqLog.input.state \in {"REJECTED", "CUSTOMER_REJECTED"}) =>
        /\ inqLog.result.inq.state = "REJECTED"
        /\ Len(inqLog.result.notified) = 1
        /\ inqLog.result.notified[1] = [inqLog.input EXCEPT !.state = "REJECTED"]
        /\ inqLog.result.quotes = 0
        /\ inqLog.result.depth = 1
        /\ published["allinquiries"] = inqLog.records + 1

\* A CUSTOMER_REJECTED inquiry was rejected after two earlier inquiries.
C21_Witness ==
    /\ inqLog /= None
    /\ inqLog.input.state = "CUSTOMER_REJECTED"
    /\ inqLog.result.inq.state = "REJECTED"
    /\ inqLog.records = 2
    /\ published["allinquiries"] = 3

\* C22: no trade synthesized from an execution carries the trade id of an
\* inbound trade.
C22_SynthIdsDistinct ==
    synthLog.n > 0 => synthLog.trade.tradeId \notin DOMAIN trades

\* C23: every position update gives one PV01 from the risk service, for
\* the updated product, with the catalog's per-unit PV01 (0.02 for
\* 91282CAX9, 0.05 for 91282CAZ4) and the aggregate position after the
\* update; the risk line carries quantity times per-unit PV01.
C23_RiskValue ==
    /\ riskLog.n = published["position"]
    /\ riskLog.n = published["risk"]
    /\ riskLog.n > 0 =>
          LET c == riskLog.pv01.product
          IN  /\ c = recv.value.product
              /\ riskLog.pv01.pv01 = (IF c = "91282CAX9" THEN 2 ELSE 5)
              /\ riskLog.pv01.quantity = netFlow[c]
              /\ riskLog.pv01.quantity = GetAggregatePosition(positions[c])
              /\ riskLog.line.product = c
              /\ riskLog.line.total_pv01 = netFlow[c] * (IF c = "91282CAX9" THEN 2 ELSE 5)

\* BUY 1000000 on TRSY1 and SELL 400000 on TRSY2 of 91282CAX9: aggregate
\* 600000, risk 12000 (1200000 in units of 0.01).
C23_Witness ==
    /\ riskLog.n = 2
    /\ riskLog.line = [product |-> "91282CAX9", total_pv01 |-> 1200000]
    /\ riskLog.pv01.quantity = 600000
    /\ positions["91282CAX9"]["TRSY1"] = 1000000
    /\ positions["91282CAX9"]["TRSY2"] = -400000

\* C24: the data_writer appends one line per published record, never an
\* empty line and never more lines than records; whenever the connector is
\* back from Publish no "success" is left unread.
C24_OutboundLockStep ==
    /\ Len(outw.file) <= outw.published
    /\ \A i \in 1..Len(outw.file) : outw.file[i] = <<Tok("rec", i)>>
    /\ outw.cpc = "idle" => outw.w2c = <<>>
    /\ outw.wpc = "closed" => Len(outw.file) = outw.published

\* C25: the data_reader sends the records of the file in file order, one
\* per request of the connector, and "EOF" once after the last; the
\* connector passes to OnMessage exactly the records of the file, in file
\* order, each once, and always comes to leave its loop.
C25_InboundLockStep ==
    /\ [](/\ inw.sent = SubSeq(inw.file, 1, inw.pos)
          /\ Len(inw.sent) + inw.eofs <= inw.reqs
          /\ inw.reqs <= Len(inw.got) + 1
          /\ Len(inw.got) <= Len(inw.sent)
          /\ \A i \in 1..Len(inw.got) : inw.got[i] = <<Tok("rec", inw.file[i])>>
          /\ inw.eofs = 1 => inw.pos = Len(inw.file)
          /\ inw.cpc = "done" =>
                /\ Len(inw.got) = Len(inw.file)
                /\ inw.rpc = "done"
                /\ inw.eofs = 1
                /\ inw.c2r = <<>> /\ inw.r2c = <<>>)
    /\ <>(inw.cpc = "done")

C25_Witness ==
    /\ inw.cpc = "done"
    /\ inw.file = <<2, 1, 2>>
    /\ inw.got = <<<<Tok("rec", 2)>>, <<Tok("rec", 1)>>, <<Tok("rec", 2)>>>>
    /\ inw.reqs = 4

\* C26: an outbound connector sends "EOF" once, at teardown and after its
\* last record, the trading side always comes to its teardown, and the
\* data_writer always comes to leave its loop on "EOF" and close its file.
C26_Teardown ==
    /\ [](/\ outw.eofs <= 1
          /\ outw.eofs = 1 <=> outw.cpc = "closed")
    /\ [][outw'.eofs = 1 => outw'.published = outw.published]_vars
    /\ <>(outw.cpc = "closed")
    /\ <>(outw.wpc = "closed")

\* C27: two runs given the same orders and any two Market values notify
\* the same ExecutionOrders and hold the same trades, positions and
\* execution records downstream.
C27_MarketIrrelevant == algo.runA = algo.runB

C27_Witness ==
    /\ algo.runA.n = 2
    /\ algo.marketA = "BROKERTEC"
    /\ algo.marketB = "CME"
    /\ algo.emitted
    /\ algo.runB.order = algo.order

\* C28: an order emitted by AlgoExecute has, on BID, the best bid price and
\* the best offer quantity, and, on OFFER, the best offer price and the
\* best bid quantity; its hidden quantity is its visible quantity, its type
\* MARKET, its parent id its own id, and it is not a child order.
C28_ExecutionContent ==
    algo.emitted =>
        LET o == algo.order
            bid == algo.ob.bidStack[1]
            offer == algo.ob.offerStack[1]
        IN  /\ o.side \in {"BID", "OFFER"}
            /\ o.side = "BID" => o.price = bid.price /\ o.visibleQuantity = offer.quantity
            /\ o.side = "OFFER" => o.price = offer.price /\ o.visibleQuantity = bid.quantity
            /\ o.hiddenQuantity = o.visibleQuantity
            /\ o.orderType = "MARKET"
            /\ o.parentOrderId = o.orderId
            /\ o.isChildOrder = FALSE
            /\ o.product = algo.ob.product

C28_Witness ==
    /\ algo.emitted
    /\ algo.count = 2
    /\ algo.order.side = "OFFER"
    /\ algo.order.price = 99 * Tick + 250
    /\ algo.order.visibleQuantity = 3 * LevelQty
    /\ algo.ob.offerStack[1].quantity = LevelQty
    /\ algo.runA.n = 2
    /\ algo.runA.line.price = <<"9", "9", "-", "3", "1", "2">>

\* C29: the counter of BondAlgoExecutionService counts every order book
\* received, dropped by the gate or not; an emitted order carries the
\* decimal form of that count as its id and is BID exactly when the count
\* is odd; the ids of successive orders are those of increasing counts and
\* decimal forms of different counts differ.
C29_CounterAndIds ==
    /\ [](/\ algoExecCount = nRead
          /\ \A i, j \in 1..(10 * MaxBooks) : i < j => to_string(i) /= to_string(j))
    /\ [][/\ nRead' = nRead + 1 => algoExecCount' = algoExecCount + 1
          /\ execLog'.n = execLog.n + 1 =>
                /\ execLog'.order.orderId = to_string(nRead')
                /\ execLog'.order.side = "BID" <=> nRead' % 2 = 1
                /\ execLog.n > 0 =>
                      \E j \in 1..nRead : execLog.order.orderId = to_string(j)]_vars

\* The third book is executed after the second was dropped by the gate.
C29_Witness ==
    /\ nRead = 3
    /\ execLog.n = 2
    /\ lastBook.emitted
    /\ execLog.order.orderId = <<"3">>
    /\ execLog.order.side = "BID"

\* C30: an inquiry received in state RECEIVED gets price 100, is made
\* QUOTED by the quote connector, is made DONE by a second pass of
\* OnMessage and is notified once, as DONE with price 100 (record
\* 100-000, DONE); no inquiry is ever notified as RECEIVED or QUOTED, and
\* the quote connector leaves a DONE inquiry as it is.
C30_HappyPath ==
    inqLog /= None =>
        LET in == inqLog.input
            r == inqLog.result
            done == [in EXCEPT !.price = Par, !.state = "DONE"]
        IN  /\ \A i \in 1..Len(r.notified) : r.notified[i].state \notin {"RECEIVED", "QUOTED"}
            /\ in.state = "RECEIVED" =>
                  /\ QuotePublish(SetPrice(in, Par)) = [in EXCEPT !.price = Par, !.state = "QUOTED"]
                  /\ QuotePublish(done) = done
                  /\ r.depth = 2
                  /\ r.quotes = 2
                  /\ r.inq = done
                  /\ r.notified = <<done>>
                  /\ AllInquiriesPublish(r.notified[1]) =
                        [product |-> in.product,
                         price |-> <<"1", "0", "0", "-", "0", "0", "0">>,
                         state |-> "DONE"]
                  /\ published["allinquiries"] = inqLog.records + 1

\* A RECEIVED inquiry to sell went through to DONE at 100 after an earlier
\* inquiry.
C30_Witness ==
    /\ inqLog /= None
    /\ inqLog.input.state = "RECEIVED"
    /\ inqLog.input.side = "SELL"
    /\ inqLog.input.price = 0
    /\ inqLog.result.notified[1].price = Par
    /\ inqLog.result.notified[1].state = "DONE"
    /\ inqLog.result.depth = 2
    /\ inqLog.records = 1

\* C31: the keys of the position cache are the catalog CUSIPs in every
\* state; GetData succeeds for each of them; a position no trade has
\* touched has aggregate 0, and the position of a product changes only on
\* a record for that product.
C31_PositionKeys ==
    /\ [](/\ DOMAIN positions = Cusips
          /\ \A c \in Cusips :
                /\ PositionGetData(positions, c).kind = "value"
                /\ positions[c] = <<>> =>
                      GetAggregatePosition(PositionGetData(positions, c).value) = 0)
    /\ [][\A c \in Cusips :
            positions'[c] /= positions[c] => recv'.value.product = c]_vars

\* One product has inbound and synthesized trades, the other none.
C31_Witness ==
    /\ DOMAIN positions = Cusips
    /\ positions["91282CAZ4"] = <<>>
    /\ synthLog.n > 0
    /\ DOMAIN trades /= {}
    /\ GetAggregatePosition(positions["91282CAX9"]) = 2000000

\* C32: AddTrade with a trade of a product outside the catalog ends the
\* process with its diagnostic; no position changes, no listener is
\* notified and no position or risk record is published for the trade.
C32_UnknownProduct ==
    /\ []((query /= None /\ query.op = "AddTrade") =>
            /\ query.key \notin Cusips
            /\ query.result.kind = "exit"
            /\ feed = "exited"
            /\ DOMAIN positions = Cusips)
    /\ [][(query' /= None /\ query' /= query /\ query'.op = "AddTrade") =>
            /\ positions' = positions
            /\ risks' = risks /\ riskLog' = riskLog
            /\ hdlCount' = hdlCount /\ keyLog' = keyLog
            /\ published' = published]_vars

\* The second record of the feed names an unknown product; the first was
\* booked.
C32_Witness ==
    /\ query /= None
    /\ query.op = "AddTrade"
    /\ feed = "exited"
    /\ nRead = 2
    /\ published["position"] = 1
    /\ published["risk"] = 1
    /\ recv.value.product = UnknownCusip

\* The quantity a position holds in a book, 0 for a book not present.
QuantityIn(pos, book) == IF book \in DOMAIN pos THEN pos[book] ELSE 0

\* The trade a step has processed: the inbound trade just received or the
\* trade just synthesized from an execution; None on any other step.
ProcessedTrade ==
    IF feed = "trades" /\ nRead' = nRead + 1 THEN recv'.value
    ELSE IF synthLog'.n = synthLog.n + 1 THEN synthLog'.trade
    ELSE None

\* C33: a trade for product c in book b with quantity q adds +q (BUY) or
\* -q (SELL) to the quantity of book b of c, a book not yet present
\* counting as 0; every other book of c and every book of every other
\* product keeps its quantity; a step that processes no trade changes no
\* quantity.
C33_TradeFrame ==
    [][LET t == ProcessedTrade
       IN  \A c \in Cusips, b \in BookNames :
              QuantityIn(positions'[c], b) =
                  QuantityIn(positions[c], b)
                  + (IF t /= None /\ t.product = c /\ t.book = b
                     THEN (IF t.side = "BUY" THEN t.quantity ELSE -t.quantity)
                     ELSE 0)]_vars

\* An inbound BUY of 1000000 in TRSY1 of one product, then a synthesized
\* BUY in TRSY2 of the other.
C33_Witness ==
    /\ synthLog.n = 1
    /\ synthLog.trade.product = "91282CAZ4"
    /\ synthLog.trade.book = "TRSY2"
    /\ QuantityIn(positions["91282CAZ4"], "TRSY2") = 1000000
    /\ QuantityIn(positions["91282CAZ4"], "TRSY1") = 0
    /\ QuantityIn(positions["91282CAX9"], "TRSY1") = 1000000
    /\ QuantityIn(positions["91282CAX9"], "TRSY2") = 0
    /\ DOMAIN positions["91282CAX9"] = BookNames

C35_BookNotCrossed ==
    /\ \A c \in DOMAIN orderbooks : GetSpread(orderbooks[c]) >= 0
    /\ (lastBook /= None /\ lastBook.spread < 0) => ~lastBook.emitted

\* The number of lines written so far for an outbound connector.
LinesOf(x) == Cardinality({i \in 1..Len(run.files) : run.files[i].connector = x})

\* C36: whenever an inbound connector is about to read, and when main has
\* returned, with T trades, M order books of which E passed the spread
\* gate and P prices read so far, E execution lines, T + E position lines,
\* T + E risk lines and P streaming lines have been written, whatever the
\* GUI throttle did with the prices.
C36_RecordCounts ==
    RunOp.op \in {"read", "halt"} =>
        LET T == run.nread["trades"]
            E == run.passed
            P == run.nread["prices"]
        IN  /\ E <= run.nread["marketdata"]
            /\ LinesOf("execution") = E
            /\ LinesOf("position") = T + E
            /\ LinesOf("risk") = T + E
            /\ LinesOf("streaming") = P
            /\ LinesOf("gui") <= P

\* main has returned after two trades, two books of which one passed the
\* gate, and two prices of which the GUI took one.
C36_Witness ==
    /\ RunOp.op = "halt"
    /\ run.nread = [f \in Feeds |-> 2]
    /\ run.passed = 1
    /\ LinesOf("execution") = 1
    /\ LinesOf("position") = 3
    /\ LinesOf("risk") = 3
    /\ LinesOf("streaming") = 2
    /\ LinesOf("gui") = 1

\* C37: the trade cache changes only when a trade of the inbound feed is
\* received, and then its keys are those it had plus the id received; a
\* trade synthesized from an execution leaves the cache as it is, also when
\* it carries the id of a cached inbound trade.
C37_SynthNotCached ==
    /\ [](\A id \in DOMAIN trades : trades[id].tradeId = id /\ trades[id].price = Par)
    /\ [][IF feed = "trades" /\ nRead' = nRead + 1
          THEN /\ DOMAIN trades' = DOMAIN trades \cup {recv'.key}
               /\ trades'[recv'.key] = recv'.value
          ELSE trades' = trades]_vars

\* A synthesized trade with id "1" was booked while the cache held the
\* inbound trade "1", which is still there.
C37_Witness ==
    /\ synthLog.n = 1
    /\ synthLog.trade.tradeId = <<"1">>
    /\ DOMAIN trades = {<<"1">>}
    /\ trades[<<"1">>].price = Par
    /\ synthLog.trade.price /= Par
    /\ published["position"] = 2

\* The place in run.files of the line a connector wrote for a record, 0 if
\* it wrote none.
LineAt(x, f, idx) ==
    LET at == {i \in 1..Len(run.files) :
                  run.files[i] = [connector |-> x, feed |-> f, idx |-> idx]}
    IN  IF at = {} THEN 0 ELSE CHOOSE i \in at : TRUE

\* C38: for every trade, inbound or synthesized, the risk line is written
\* before the position line; for every executed book the risk line and the
\* position line of the synthesized trade are written before the execution
\* line.
C38_EmissionOrder ==
    \A f \in {"trades", "marketdata"} : \A idx \in 1..run.nread[f] :
        LET risk == LineAt("risk", f, idx)
            position == LineAt("position", f, idx)
            execution == LineAt("execution", f, idx)
        IN  /\ position > 0 => (risk > 0 /\ risk < position)
            /\ execution > 0 => (position > 0 /\ position < execution)
            /\ f = "trades" => execution = 0

\* The second book of the feed was executed after two inbound trades: its
\* risk, position and execution lines are the last three written.
C38_Witness ==
    /\ run.nread["trades"] = 2
    /\ Len(run.files) = 7
    /\ LineAt("risk", "marketdata", 2) = 5
    /\ LineAt("position", "marketdata", 2) = 6
    /\ LineAt("execution", "marketdata", 2) = 7
    /\ LineAt("risk", "marketdata", 1) = 0

\* C39: a price that arrives while the clock reads less than the
\* last-emit time is dropped: nothing is published and the last-emit time
\* and the count stay as they were.
C39_ClockSetBack ==
    [][guiLog'.at < gui.last_time =>
          /\ ~guiLog'.emitted
          /\ gui' = gui
          /\ published' = published]_vars

\* C40: OnMessage returns for an inquiry in any state, after at most one
\* nested OnMessage call (depth at most 2) and at most two calls of the
\* quote connector: two passes and two quotes from RECEIVED, one pass and
\* one quote from QUOTED, one pass and no quote from any other state.
C40_BoundedRecursion ==
    inqLog /= None =>
        LET r == inqLog.result
            st == inqLog.input.state
        IN  /\ r.depth <= 2
            /\ r.quotes <= 2
            /\ r.depth = (IF st = "RECEIVED" THEN 2 ELSE 1)
            /\ r.quotes = (CASE st = "RECEIVED" -> 2 [] st = "QUOTED" -> 1 [] OTHER -> 0)
            /\ Len(r.notified) = 1

\* OnMessage has returned for inquiries in the states QUOTED and then
\* RECEIVED, the latter after its nested pass.
C40_Witness ==
    /\ inqLog /= None
    /\ inqLog.input.state = "RECEIVED"
    /\ inqLog.input.inquiryId = <<"Q", "2">>
    /\ inqLog.result.depth = 2
    /\ inqLog.result.quotes = 2
    /\ nRead = 2
    /\ keyLog["allinquiries"] = <<<<"0">>, <<"1">>>>

====
